---- MODULE Spec2Model ----
(***************************************************************************)
(* Verification model of astro-ai-archiver.                                *)
(*                                                                         *)
(* Two specifications share this module:                                   *)
(*   SpecServer  the scan-state coordination of the MCP server: the        *)
(*               startup scan goroutine of runMCPServer, the               *)
(*               rescan_fits_directory handler and its background          *)
(*               goroutine, the package-level scanMutex / scanningNow /    *)
(*               lastScanTime.                                             *)
(*   SpecScan    one Scanner at a time working on a small file system and  *)
(*               the fits_files index: Scan, walkDirectory, the worker     *)
(*               pool, processFile, extractMetadata, GetRelativePath,      *)
(*               InsertOrUpdateFile.                                       *)
(***************************************************************************)
EXTENDS Integers, Sequences, FiniteSets, TLC

(***************************************************************************)
(* Bounds of the model (not program constants).                            *)
(***************************************************************************)
\* time.Now() is read from a clock that advances up to MaxClock
MaxClock == 2
\* number of rescan_fits_directory tool calls the clients make
MaxCalls == 3
\* scan passes made in one run of the scan specification
MaxScans == 2
\* changes of the file system (a directory removed, created or made
\* unreadable, a file touched) made by the environment in one run
MaxEnv == 1
\* store faults (a failed lookup or a failed write) injected in one run
MaxFaults == 1
\* the longest list of base directories GetRelativePath is applied to
MaxBaseDirs == 2
\* the longest list of patterns expandDirectories is applied to
MaxPatterns == 2
\* calls made to the store in one run of the store specification
MaxOps == 2
MaxDays == 400
MaxBeyond == 1
MaxSnapshots == 2

VARIABLES
    \* ---- server state (mcp-server.go:41-46) ----
    scanMutex,      \* holder of scanMutex, or Free
    scanningNow,    \* the running flag
    lastScanTime,   \* the last-completed timestamp, 0 is the zero time
    pc,             \* position of every thread of the server
    resp,           \* last response of each request handler
    clock,          \* the wall clock time.Now() reads
    calls,          \* rescan_fits_directory calls received so far
    spawned,        \* scanner.Scan() calls made by rescan goroutines so far
    accepted,       \* triggers answered "started" so far
    rejected,       \* triggers answered "already_running" so far
    \* ---- file system ----
    dirState,       \* "ok", "missing" or "unreadable" for each top directory
    files,          \* what each candidate file is: stat-able, parseable, header
    mtime,          \* modification time of each candidate file
    \* ---- configuration and store ----
    recursive,      \* cfg.Scan.Recursive
    dbBaseDirs,     \* Database.baseDirs, fixed when the database is opened
    index,          \* the fits_files table, keyed by relative_path
    \* ---- the Scanner of the current pass (part_001:18-35) ----
    s_pc,           \* "idle", "loop" (inside Scan) or "done" (Scan returned)
    s_baseDirs,     \* Scanner.baseDirs
    s_force,        \* Scanner.force
    dirIdx,         \* position of Scan's loop over baseDirs
    scanned, added, updated, skipped,   \* the atomic counters
    errors,         \* Scanner.errors
    frames,         \* the walkDirectory calls in progress, innermost last
    result,         \* what Scan returned
    \* ---- bookkeeping of the run ----
    startupPending, \* the startup scan has not run yet
    scansDone,      \* scan passes completed
    envChanges,     \* environment changes made
    faults,         \* store faults injected
    \* ---- observation of the current pass ----
    queued,         \* files sent to a worker channel
    queuedSet,      \* the same, as a set of paths
    handled,        \* files processFile has been called on
    visited,        \* what Scan's loop did with each base directory
    problems,       \* problems met by the pass
    last,           \* the last processFile call and its outcome
    written,        \* files ever written to the index
    outcomes,       \* the outcome of processFile for each file of the pass
    now,            \* the store's clock, strftime('%s', 'now')
    quietScans,     \* passes completed in a row without environment change or fault
    \* ---- a function applied to an input on its own ----
    p_arg,          \* the function and its arguments
    p_ret,          \* what it returned, NoRet before the call
    \* ---- the store and its callers (database.go) ----
    table,          \* the rows of fits_files
    nextId,         \* the next value of the AUTOINCREMENT column id
    writeMu,        \* holder of Database.writeMu, or Free
    dbpc,           \* position of every caller of the store
    dbarg,          \* the argument of each caller's last call
    dbret,          \* what each caller's last call returned
    sent,           \* the texts ExecuteReadOnlyQuery has passed to db.Query
    dbNow,          \* the store's clock, strftime('%s', 'now')
    dbOps,          \* calls made to the store so far
    schema,         \* the tables and indexes of the store
    \* ---- one pass over directories of any size (part_001:52-154) ----
    w_tree,         \* the base directories: the levels of nested directories of
                    \* each, with the numbers of FITS files of every level
    w_pc,           \* "idle", "loop" (inside Scan) or "done" (Scan returned)
    w_dirIdx,       \* position of Scan's loop over the base directories
    w_frames,       \* the walkDirectory calls in progress, innermost last
    w_calls,        \* the processFile calls made so far, for every file
    \* ---- the scan state of package tools (register.go:11-45) ----
    objects,        \* the ScanState values in memory, by address
    held,           \* the addresses GetScanState has returned to its callers
    toolOp          \* the operation that ran last

serverVars == <<scanMutex, scanningNow, lastScanTime, pc, resp, clock,
                calls, spawned, accepted, rejected>>

fsVars == <<dirState, files, mtime>>
storeVars == <<recursive, dbBaseDirs, index>>
scannerVars == <<s_pc, s_baseDirs, s_force, dirIdx, scanned, added, updated,
                 skipped, errors, frames, result>>
runVars == <<startupPending, scansDone, envChanges, faults>>
obsVars == <<queued, queuedSet, handled, visited, problems, last, written,
             outcomes, now, quietScans>>
scanVars == <<fsVars, storeVars, scannerVars, runVars, obsVars>>

pureVars == <<p_arg, p_ret>>

dbVars == <<table, nextId, writeMu, dbpc, dbarg, dbret, sent, dbNow, dbOps, schema>>

\* what the actions of one part of the program leave alone
walkVars == <<w_tree, w_pc, w_dirIdx, w_frames, w_calls>>

toolVars == <<objects, held, toolOp>>

beyondServer == <<scanVars, pureVars, dbVars, walkVars, toolVars>>
beyondScan == <<serverVars, pureVars, dbVars, walkVars, toolVars>>
beyondPure == <<serverVars, scanVars, dbVars, walkVars, toolVars>>
beyondStore == <<serverVars, scanVars, pureVars, walkVars, toolVars>>
beyondWalk == <<serverVars, scanVars, pureVars, dbVars, toolVars>>
beyondTools == <<serverVars, scanVars, pureVars, dbVars, walkVars>>

vars == <<serverVars, scanVars, pureVars, dbVars, walkVars, toolVars>>

\* no function applied on its own, nothing returned
NoRet == [fn |-> "none"]

(***************************************************************************)
(* Threads of the server.                                                  *)
(***************************************************************************)
Free == "free"
\* a lastScanTime value mixed from two racing stores
Torn == -1
StartupThread == "startup"
Handlers == {"h1", "h2"}
Goroutines == {"g1", "g2"}
Threads == {StartupThread} \cup Handlers \cup Goroutines

NoResponse == [status |-> "none", force |-> FALSE]

\* the threads that are inside a scanner.Scan() call
ActiveScans == {t \in Threads : pc[t] = "scanning"}

(***************************************************************************)
(* runMCPServer: the initial scan goroutine (mcp-server.go:95-112).        *)
(***************************************************************************)
\* scanner := NewScanner(...); scanner.Scan() is entered (lines 99-100)
StartupScanBegin ==
    /\ UNCHANGED beyondServer
    /\ pc[StartupThread] = "spawned"
    /\ pc' = [pc EXCEPT ![StartupThread] = "scanning"]
    /\ UNCHANGED <<scanMutex, scanningNow, lastScanTime, resp, clock,
                   calls, spawned, accepted, rejected>>

\* scanner.Scan() returns, with a result or with an error (lines 100-109)
StartupScanReturn ==
    /\ UNCHANGED beyondServer
    /\ pc[StartupThread] = "scanning"
    /\ pc' = [pc EXCEPT ![StartupThread] = "settime"]
    /\ UNCHANGED <<scanMutex, scanningNow, lastScanTime, resp, clock,
                   calls, spawned, accepted, rejected>>

\* lastScanTime = time.Now() (line 110): a plain store, scanMutex is not
\* taken.  When the store overlaps the locked store of a rescan goroutine
\* (line 337) the two writes race and the three-word time.Time value may be
\* a mix of both.
StartupSetTime ==
    /\ UNCHANGED beyondServer
    /\ pc[StartupThread] = "settime"
    /\ \E v \in {clock} \cup (IF scanMutex \in Goroutines THEN {Torn} ELSE {}) :
          lastScanTime' = v
    /\ pc' = [pc EXCEPT ![StartupThread] = "done"]
    /\ UNCHANGED <<scanMutex, scanningNow, resp, clock,
                   calls, spawned, accepted, rejected>>

(***************************************************************************)
(* rescan_fits_directory (mcp-server.go:303-368, and the same handler in   *)
(* mcp-server/tools/get_configuration.go:49-125).                          *)
(***************************************************************************)
\* the tool is called; force is read from the arguments (lines 308-313)
RescanCall(h) ==
    /\ UNCHANGED beyondServer
    /\ pc[h] = "idle"
    /\ calls < MaxCalls
    /\ \E force \in BOOLEAN :
          resp' = [resp EXCEPT ![h] = [status |-> "pending", force |-> force]]
    /\ calls' = calls + 1
    /\ pc' = [pc EXCEPT ![h] = "lock"]
    /\ UNCHANGED <<scanMutex, scanningNow, lastScanTime, clock,
                   spawned, accepted, rejected>>

\* scanMutex.Lock() (line 316)
RescanLock(h) ==
    /\ UNCHANGED beyondServer
    /\ pc[h] = "lock"
    /\ scanMutex = Free
    /\ scanMutex' = h
    /\ pc' = [pc EXCEPT ![h] = "check"]
    /\ UNCHANGED <<scanningNow, lastScanTime, resp, clock,
                   calls, spawned, accepted, rejected>>

\* the test of the running flag at line 317
AlreadyRunningMutant(flag) == FALSE
AlreadyRunning(flag) == flag

\* if scanningNow { scanMutex.Unlock(); return "already_running" }
\* (lines 317-328)
RescanReject(h) ==
    /\ UNCHANGED beyondServer
    /\ pc[h] = "check"
    /\ AlreadyRunning(scanningNow)
    /\ scanMutex' = Free
    /\ resp' = [resp EXCEPT ![h] = [status |-> "already_running", force |-> FALSE]]
    /\ rejected' = rejected + 1
    /\ pc' = [pc EXCEPT ![h] = "idle"]
    /\ UNCHANGED <<scanningNow, lastScanTime, clock, calls, spawned, accepted>>

\* scanningNow = true; scanMutex.Unlock() (lines 329-330)
RescanAccept(h) ==
    /\ UNCHANGED beyondServer
    /\ pc[h] = "check"
    /\ ~AlreadyRunning(scanningNow)
    /\ scanningNow' = TRUE
    /\ scanMutex' = Free
    /\ pc' = [pc EXCEPT ![h] = "spawn"]
    /\ UNCHANGED <<lastScanTime, resp, clock, calls, spawned, accepted, rejected>>

\* go func() {...}() and the "started" response (lines 333, 355-367)
RescanSpawn(h) ==
    /\ UNCHANGED beyondServer
    /\ pc[h] = "spawn"
    /\ \E g \in Goroutines :
          /\ pc[g] = "free"
          /\ pc' = [pc EXCEPT ![h] = "idle", ![g] = "spawned"]
    /\ resp' = [resp EXCEPT ![h] = [status |-> "started", force |-> resp[h].force]]
    /\ accepted' = accepted + 1
    /\ UNCHANGED <<scanMutex, scanningNow, lastScanTime, clock,
                   calls, spawned, rejected>>

\* the goroutine expands the directories, builds the scanner and enters
\* scanner.Scan() (lines 341-344)
GoScanBegin(g) ==
    /\ UNCHANGED beyondServer
    /\ pc[g] = "spawned"
    /\ pc' = [pc EXCEPT ![g] = "scanning"]
    /\ spawned' = spawned + 1
    /\ UNCHANGED <<scanMutex, scanningNow, lastScanTime, resp, clock,
                   calls, accepted, rejected>>

\* scanner.Scan() returns, with a result or with an error (lines 344-352)
GoScanReturn(g) ==
    /\ UNCHANGED beyondServer
    /\ pc[g] = "scanning"
    /\ pc' = [pc EXCEPT ![g] = "defer"]
    /\ UNCHANGED <<scanMutex, scanningNow, lastScanTime, resp, clock,
                   calls, spawned, accepted, rejected>>

\* deferred function: scanMutex.Lock() (line 335)
DeferLock(g) ==
    /\ UNCHANGED beyondServer
    /\ pc[g] = "defer"
    /\ scanMutex = Free
    /\ scanMutex' = g
    /\ pc' = [pc EXCEPT ![g] = "deferLocked"]
    /\ UNCHANGED <<scanningNow, lastScanTime, resp, clock,
                   calls, spawned, accepted, rejected>>

\* scanningNow = false; lastScanTime = time.Now(); scanMutex.Unlock()
\* (lines 336-338); the goroutine ends
DeferStoreUnlockMutant(g) ==
    /\ UNCHANGED beyondServer
    /\ pc[g] = "deferLocked"
    /\ lastScanTime' = clock
    /\ scanMutex' = Free
    /\ pc' = [pc EXCEPT ![g] = "free"]
    /\ UNCHANGED <<scanningNow, resp, clock, calls, spawned, accepted, rejected>>
DeferStoreUnlock(g) ==
    /\ UNCHANGED beyondServer
    /\ pc[g] = "deferLocked"
    /\ scanningNow' = FALSE
    /\ lastScanTime' = clock
    /\ scanMutex' = Free
    /\ pc' = [pc EXCEPT ![g] = "free"]
    /\ UNCHANGED <<resp, clock, calls, spawned, accepted, rejected>>

\* the wall clock advances
Tick ==
    /\ UNCHANGED beyondServer
    /\ clock < MaxClock
    /\ clock' = clock + 1
    /\ UNCHANGED <<scanMutex, scanningNow, lastScanTime, pc, resp,
                   calls, spawned, accepted, rejected>>

ServerNext ==
    \/ StartupScanBegin
    \/ StartupScanReturn
    \/ StartupSetTime
    \/ \E h \in Handlers : RescanCall(h)
    \/ \E h \in Handlers : RescanLock(h)
    \/ \E h \in Handlers : RescanReject(h)
    \/ \E h \in Handlers : RescanAccept(h)
    \/ \E h \in Handlers : RescanSpawn(h)
    \/ \E g \in Goroutines : GoScanBegin(g)
    \/ \E g \in Goroutines : GoScanReturn(g)
    \/ \E g \in Goroutines : DeferLock(g)
    \/ \E g \in Goroutines : DeferStoreUnlock(g)
    \/ Tick


(***************************************************************************)
(* The file system the scanner works on.  A path is the sequence of its    *)
(* components; directories A and B are the configured scan roots, A has    *)
(* the subdirectory s.  A/x.fits and B/x.fits carry the same file name.    *)
(***************************************************************************)
DirA == <<"A">>
DirB == <<"B">>
DirAS == <<"A", "s">>
TopDirs == {DirA, DirB}

FileAX == <<"A", "x.fits">>
FileASY == <<"A", "s", "y.FIT">>
FileAZ == <<"A", "z.fts">>
FileBX == <<"B", "x.fits">>
FitsFiles == {FileAX, FileAZ, FileASY, FileBX}

\* os.ReadDir(dir): the entries of a directory, sorted by file name
Entry(name, isDir) == [name |-> name, isDir |-> isDir]
ReadDir(dir) ==
    IF dir = DirA
    THEN <<Entry("notes.txt", FALSE), Entry("s", TRUE), Entry("x.fits", FALSE),
           Entry("z.fts", FALSE)>>
    ELSE IF dir = DirAS THEN <<Entry("y.FIT", FALSE)>>
    ELSE IF dir = DirB THEN <<Entry("x.fits", FALSE)>>
    ELSE <<>>

\* os.ReadDir fails on a directory that is missing or may not be listed;
\* the subdirectory is always readable
ReadDirFails(dir) == dir \in TopDirs /\ dirState[dir] # "ok"

\* strings.ToLower(filepath.Ext(filename))
LowerExt(name) ==
    IF name = "x.fits" THEN ".fits"
    ELSE IF name = "y.FIT" THEN ".fit"
    ELSE IF name = "z.fts" THEN ".fts"
    ELSE IF name = "notes.txt" THEN ".txt"
    ELSE ""

\* Scanner.isFITSFile
isFITSFile(name) == LowerExt(name) \in {".fits", ".fit", ".fts"}

(***************************************************************************)
(* expandDirectories (mcp-server.go:630-668).  A configured pattern is     *)
(* given by the directories its glob can match, in the order filepath.Glob *)
(* returns them; the matches that exist and are directories are appended.  *)
(* The two configured patterns are the literal paths A and B.              *)
(***************************************************************************)
cfgPatterns == <<(<<DirA>>), (<<DirB>>)>>

RECURSIVE ExistingDirs(_, _)
ExistingDirs(matches, st) ==
    IF matches = <<>> THEN <<>>
    ELSE (IF st[Head(matches)] # "missing" THEN <<Head(matches)>> ELSE <<>>)
            \o ExistingDirs(Tail(matches), st)

RECURSIVE expandDirectories(_, _)
expandDirectories(patterns, st) ==
    IF patterns = <<>> THEN <<>>
    ELSE ExistingDirs(Head(patterns), st) \o expandDirectories(Tail(patterns), st)

(***************************************************************************)
(* FITS headers.  A card is absent, a string or a number; the header maps  *)
(* every keyword the extractor probes to its card.                         *)
(***************************************************************************)
NoCard == [t |-> "none", s |-> "", n |-> 0]
StrCard(v) == [t |-> "string", s |-> v, n |-> 0]
NumCard(v) == [t |-> "float64", s |-> "", n |-> v]

ObjectKeys == <<"OBJECT", "TARGET", "OBJNAME">>
TelescopeKeys == <<"TELESCOP", "TELESCOPE", "SCOPE">>
ExposureKeysMutant == <<"EXPOSURE", "EXPTIME", "EXPOS">>
ExposureKeys == <<"EXPTIME", "EXPOSURE", "EXPOS">>
FilterKeys == <<"FILTER", "FILT", "FILTNAME">>
ImageTypeKeys == <<"IMAGETYP", "IMAGTYP", "FRAME">>

Range(seq) == {seq[i] : i \in 1..Len(seq)}
HeaderKeys == Range(ObjectKeys) \cup Range(TelescopeKeys) \cup Range(ExposureKeys)
                 \cup Range(FilterKeys) \cup Range(ImageTypeKeys)

\* a header that carries the five cards under their first keyword
PlainHeader(obj, tel, exp, flt, typ) ==
    [k \in HeaderKeys |->
        IF k = "OBJECT" THEN obj
        ELSE IF k = "TELESCOP" THEN tel
        ELSE IF k = "EXPTIME" THEN exp
        ELSE IF k = "FILTER" THEN flt
        ELSE IF k = "IMAGETYP" THEN typ
        ELSE NoCard]

\* a header written by another acquisition program: alias keywords
AliasHeader ==
    [k \in HeaderKeys |->
        IF k = "TARGET" THEN StrCard("M31")
        ELSE IF k = "SCOPE" THEN StrCard("RC8")
        ELSE IF k = "EXPOS" THEN NumCard(30)
        ELSE IF k = "FILT" THEN StrCard("Ha")
        ELSE IF k = "FRAME" THEN StrCard("LIGHT")
        ELSE NoCard]

\* what a candidate file is: whether os.Stat succeeds on it, whether
\* fitsio can open it, and its primary header
FileOf(stat, fits, header) == [stat |-> stat, fits |-> fits, header |-> header]

GoodHeader == PlainHeader(StrCard("M31"), StrCard("RC8"), NumCard(30), StrCard("Ha"), StrCard("LIGHT"))
Good == FileOf(TRUE, TRUE, GoodHeader)
\* the contents a candidate file may have: the good file; one without an
\* image type; one with alias keywords; a dark frame; a light frame in mixed
\* case; files that lack a required card or carry a blank object or an
\* exposure that is not positive; a file fitsio cannot open; a broken link
AllKinds ==
    {Good,
     FileOf(TRUE, TRUE,
        PlainHeader(StrCard("M31"), StrCard("RC8"), NumCard(30), StrCard("Ha"), NoCard)),
     FileOf(TRUE, TRUE, AliasHeader),
     FileOf(TRUE, TRUE,
        PlainHeader(StrCard("M31"), StrCard("RC8"), NumCard(30), StrCard("Ha"), StrCard("DARK"))),
     FileOf(TRUE, TRUE,
        PlainHeader(StrCard("M31"), StrCard("RC8"), NumCard(30), StrCard("Ha"), StrCard("Light"))),
     FileOf(TRUE, TRUE,
        PlainHeader(NoCard, StrCard("RC8"), NumCard(30), StrCard("Ha"), StrCard("LIGHT"))),
     FileOf(TRUE, TRUE,
        PlainHeader(StrCard(" "), StrCard("RC8"), NumCard(30), StrCard("Ha"), StrCard("LIGHT"))),
     FileOf(TRUE, TRUE,
        PlainHeader(StrCard("M31"), NoCard, NumCard(30), StrCard("Ha"), StrCard("LIGHT"))),
     FileOf(TRUE, TRUE,
        PlainHeader(StrCard("M31"), StrCard("RC8"), NumCard(30), NoCard, StrCard("LIGHT"))),
     FileOf(TRUE, TRUE,
        PlainHeader(StrCard("M31"), StrCard("RC8"), NoCard, StrCard("Ha"), StrCard("LIGHT"))),
     FileOf(TRUE, TRUE,
        PlainHeader(StrCard("M31"), StrCard("RC8"), NumCard(0), StrCard("Ha"), StrCard("LIGHT"))),
     FileOf(TRUE, TRUE,
        PlainHeader(StrCard("M31"), StrCard("RC8"), NumCard(-1), StrCard("Ha"), StrCard("LIGHT"))),
     FileOf(TRUE, TRUE,
        PlainHeader(StrCard("M31"), NoCard, NoCard, StrCard("Ha"), StrCard("LIGHT"))),
     FileOf(TRUE, TRUE,
        PlainHeader(StrCard("M31"), StrCard("RC8"), NumCard(30), StrCard("Ha"), StrCard(" LIGHT "))),
     FileOf(TRUE, TRUE,
        PlainHeader(StrCard("M31"), StrCard("RC8"), NumCard(30), StrCard("Ha"), StrCard("light"))),
     FileOf(TRUE, TRUE,
        PlainHeader(StrCard("M31"), StrCard("RC8"), NumCard(30), StrCard("Ha"), StrCard(" "))),
     FileOf(TRUE, FALSE, GoodHeader),
     FileOf(FALSE, FALSE, GoodHeader)}

\* the contents each candidate file may have
KindsOf(f) ==
    IF f = FileAX THEN AllKinds
    ELSE {Good}

\* strings.TrimSpace on the values of the model
TrimSpaceMutant(v) == v
TrimSpace(v) == IF v = " " THEN "" ELSE IF v = " LIGHT " THEN "LIGHT" ELSE v

\* Scanner.getStringHeader (part_001:436-446)
RECURSIVE getStringHeader(_, _)
getStringHeader(header, keys) ==
    IF keys = <<>> THEN ""
    ELSE LET card == header[Head(keys)]
         IN  IF card.t = "string" /\ card.s # ""
             THEN TrimSpace(card.s)
             ELSE getStringHeader(header, Tail(keys))

\* Scanner.getFloatHeader (part_001:448-468); ok = FALSE is the nil pointer
RECURSIVE getFloatHeader(_, _)
getFloatHeader(header, keys) ==
    IF keys = <<>> THEN [ok |-> FALSE, v |-> 0]
    ELSE LET card == header[Head(keys)]
         IN  IF card.t \in {"float64", "float32", "int", "int64"}
             THEN [ok |-> TRUE, v |-> card.n]
             ELSE getFloatHeader(header, Tail(keys))

(***************************************************************************)
(* Database: the index and the path mapping (database.go).                 *)
(***************************************************************************)
NoPath == <<>>

IsPrefix(p, q) == Len(p) <= Len(q) /\ SubSeq(q, 1, Len(p)) = p

\* the length of the longest common prefix of two paths
RECURSIVE CommonLen(_, _)
CommonLen(p, q) ==
    IF p = <<>> \/ q = <<>> \/ Head(p) # Head(q) THEN 0
    ELSE 1 + CommonLen(Tail(p), Tail(q))

\* filepath.Rel(basepath, targpath) for clean absolute paths: one ".." for
\* every component of basepath below the common prefix, then the rest of
\* targpath; "." when the two are the same
Rel(basepath, targpath) ==
    LET k == CommonLen(basepath, targpath)
        ups == [i \in 1..(Len(basepath) - k) |-> ".."]
        rel == ups \o SubSeq(targpath, k + 1, Len(targpath))
    IN  IF rel = <<>> THEN <<".">> ELSE rel

\* strings.HasPrefix(rel, "..") on the joined path: its first component is
\* one of the file and directory names that begin with two dots
HasDotDotPrefix(rel) == Head(rel) \in {"..", "..x.fits", "..d"}

\* Database.GetRelativePath (database.go:469-499): the result of
\* filepath.Rel for the first base directory for which it does not begin
\* with "..", NoPath for the error
RECURSIVE RelativeTo(_, _)
RelativeTo(absPath, baseDirs) ==
    IF baseDirs = <<>> THEN NoPath
    ELSE IF ~HasDotDotPrefix(Rel(Head(baseDirs), absPath))
         THEN Rel(Head(baseDirs), absPath)
         ELSE RelativeTo(absPath, Tail(baseDirs))

GetRelativePath(absPath) == RelativeTo(absPath, dbBaseDirs)

\* every relative path a candidate file can get
RelPaths == {SubSeq(f, 2, Len(f)) : f \in FitsFiles}

\* a row of fits_files: the columns the scan decides on, the content hash
\* and the row-modification timestamp
NoRow == [present |-> FALSE, hash |-> <<>>, file_mod_time |-> 0, row_mod_time |-> 0,
          object |-> "", telescope |-> "", filter |-> "", exposure |-> 0,
          image_type |-> ""]

\* Database.GetFileByPath (database.go:231-259): NoRow is the nil result
GetFileByPath(idx, relativePath) == idx[relativePath]

\* Database.InsertOrUpdateFile (database.go:187-229): the upsert keyed on
\* relative_path; row_mod_time is the store's clock
InsertOrUpdateFileMutant(idx, file) ==
    [rp \in DOMAIN idx |->
        IF rp = file.RelativePath
        THEN [present |-> TRUE, hash |-> file.Hash, file_mod_time |-> file.FileModTime,
              row_mod_time |-> now,
              object |-> file.Object, telescope |-> file.Telescope,
              filter |-> file.Filter, exposure |-> file.Exposure,
              image_type |-> file.ImageType]
        ELSE NoRow]
InsertOrUpdateFile(idx, file) ==
    [idx EXCEPT ![file.RelativePath] =
        [present |-> TRUE, hash |-> file.Hash, file_mod_time |-> file.FileModTime,
         row_mod_time |-> now,
         object |-> file.Object, telescope |-> file.Telescope,
         filter |-> file.Filter, exposure |-> file.Exposure,
         image_type |-> file.ImageType]]

\* CalculateFileHash (database.go:453-467): the SHA-256 of the content; the
\* content of a file is told apart by the file it is and its modification
\* time
CalculateFileHash(filePath) == <<filePath, mtime[filePath]>>

(***************************************************************************)
(* Scanner.extractMetadata (part_001:250-434), the fields Scan decides on. *)
(***************************************************************************)
extractMetadata(filePath, relPath) ==
    LET header == files[filePath].header
        exp == getFloatHeader(header, ExposureKeys)
        typ == getStringHeader(header, ImageTypeKeys)
    IN  [err |-> ~files[filePath].fits,
         RelativePath |-> relPath,
         Hash |-> CalculateFileHash(filePath),
         FileModTime |-> mtime[filePath],
         Object |-> getStringHeader(header, ObjectKeys),
         Telescope |-> getStringHeader(header, TelescopeKeys),
         Exposure |-> IF exp.ok THEN exp.v ELSE 0,
         Filter |-> getStringHeader(header, FilterKeys),
         ImageType |-> IF typ = "" THEN "LIGHT" ELSE typ]

(***************************************************************************)
(* Scanner.processFile (part_001:162-248).  The counters are atomic and    *)
(* the files of one pass that share a relative path are never in the pool  *)
(* at the same time, so one call is one step.  lookupFault and writeFault  *)
(* say whether the store fails the lookup at line 182 or the write at      *)
(* line 233.  The result names the outcome, the error entry (if any), the  *)
(* counter increments and the index after the call.                        *)
(***************************************************************************)
ErrorEntry(kind, path) == [kind |-> kind, path |-> path]

Outcome(tag, errs, sk, ad, up, idx, wrote) ==
    [tag |-> tag, errs |-> errs, skipped |-> sk, added |-> ad, updated |-> up,
     index |-> idx, wrote |-> wrote]

\* the test at line 189: a row exists and stores the file's modification time
UnmodifiedMutant(existing, modTime) == FALSE
Unmodified(existing, modTime) ==
    existing.present /\ existing.file_mod_time = modTime

\* the test at line 204
IsLightFrameMutant(fitsFile) == TRUE
IsLightFrame(fitsFile) == fitsFile.ImageType = "LIGHT"

\* the required-field tests at lines 211-230: the first missing field, or ""
MissingField(fitsFile) ==
    IF fitsFile.Object = "" THEN "OBJECT"
    ELSE IF fitsFile.Telescope = "" THEN "TELESCOPE"
    ELSE IF fitsFile.Filter = "" THEN "FILTER"
    ELSE IF fitsFile.Exposure = 0 THEN "EXPOSURE"
    ELSE ""

\* the branch at lines 204-208: a frame of another type is counted as
\* skipped and nothing is sent to addError
skipNonLightMutant(relPath) ==
    Outcome("notlight", <<ErrorEntry("not a light frame", relPath)>>, 1, 0, 0, index, FALSE)
skipNonLight(relPath) == Outcome("notlight", <<>>, 1, 0, 0, index, FALSE)

\* the branches at lines 211-230: addError and s.skipped.Add(1)
rejectMissingMutant(field, relPath) ==
    Outcome("missing", <<ErrorEntry("missing required field " \o field, relPath)>>,
            0, 0, 0, index, FALSE)
rejectMissing(field, relPath) ==
    Outcome("missing", <<ErrorEntry("missing required field " \o field, relPath)>>,
            1, 0, 0, index, FALSE)

processFile(filePath, lookupFault, writeFault) ==
    LET relPath == GetRelativePath(filePath)
        existing == GetFileByPath(index, relPath)
        fitsFile == extractMetadata(filePath, relPath)
        saved == InsertOrUpdateFile(index, fitsFile)
        reread == GetFileByPath(saved, relPath)
    IN  IF ~files[filePath].stat
        THEN Outcome("stat", <<ErrorEntry("failed to stat", filePath)>>, 0, 0, 0, index, FALSE)
        ELSE IF relPath = NoPath
        THEN Outcome("relpath", <<ErrorEntry("failed to get relative path", filePath)>>,
                     0, 0, 0, index, FALSE)
        ELSE IF ~s_force /\ lookupFault
        THEN Outcome("lookup", <<ErrorEntry("database error", relPath)>>, 0, 0, 0, index, FALSE)
        ELSE IF ~s_force /\ Unmodified(existing, mtime[filePath])
        THEN Outcome("unchanged", <<>>, 1, 0, 0, index, FALSE)
        ELSE IF fitsFile.err
        THEN Outcome("extract", <<ErrorEntry("failed to extract metadata", relPath)>>,
                     0, 0, 0, index, FALSE)
        ELSE IF ~IsLightFrame(fitsFile)
        THEN skipNonLight(relPath)
        ELSE IF MissingField(fitsFile) # ""
        THEN rejectMissing(MissingField(fitsFile), relPath)
        ELSE IF writeFault
        THEN Outcome("save", <<ErrorEntry("failed to save", relPath)>>, 0, 0, 0, index, FALSE)
        ELSE IF reread.present /\ reread.file_mod_time # mtime[filePath]
        THEN Outcome("updated", <<>>, 0, 0, 1, saved, TRUE)
        ELSE Outcome("added", <<>>, 0, 1, 0, saved, TRUE)

(***************************************************************************)
(* Scanner.Scan and Scanner.walkDirectory (part_001:52-154).               *)
(***************************************************************************)
\* const numWorkers = 4 (line 115)
numWorkers == 4
\* make(chan string, 100) (line 116)
ChanCap == 100

\* the state of one walkDirectory call: the entries still to be queued, the
\* channel, whether it is closed, and the workers that have not returned
NewFrame(dir) ==
    [dir |-> dir, entries |-> ReadDir(dir), chan |-> <<>>, closed |-> FALSE,
     workers |-> numWorkers]

NoResult == [nil |-> TRUE, err |-> FALSE, FilesScanned |-> 0, FilesAdded |-> 0,
             FilesUpdated |-> 0, FilesSkipped |-> 0, Errors |-> <<>>]

\* return nil, fmt.Errorf("no directories configured to scan") (lines 62-64)
ScanNoDirectories ==
    [nil |-> TRUE, err |-> TRUE, FilesScanned |-> 0, FilesAdded |-> 0,
     FilesUpdated |-> 0, FilesSkipped |-> 0, Errors |-> <<>>]

\* return result, nil (lines 85-103)
ScanResultMutant(sc, ad, up, sk, errs) ==
    IF errs # <<>> THEN ScanNoDirectories
    ELSE [nil |-> FALSE, err |-> FALSE, FilesScanned |-> sc, FilesAdded |-> ad,
          FilesUpdated |-> up, FilesSkipped |-> sk, Errors |-> errs]
ScanResult(sc, ad, up, sk, errs) ==
    [nil |-> FALSE, err |-> FALSE, FilesScanned |-> sc, FilesAdded |-> ad,
     FilesUpdated |-> up, FilesSkipped |-> sk, Errors |-> errs]

NoLast == [file |-> NoPath, tag |-> "none", fault |-> FALSE]

\* quietScans after a pass has returned; a negative value marks a pass
\* during which the environment changed or a store fault was injected
QuietAfterPass == IF quietScans < 0 THEN 0 ELSE quietScans + 1
QuietAfterChange == IF s_pc = "loop" THEN -1 ELSE 0

\* NewScanner (lines 39-50) and the entry of Scan (lines 53-64)
StartScan(dirs, force) ==
    /\ UNCHANGED beyondScan
    /\ s_pc \in {"idle", "done"}
    /\ scansDone < MaxScans
    /\ s_baseDirs' = dirs
    /\ s_force' = force
    /\ dirIdx' = 1
    /\ scanned' = 0 /\ added' = 0 /\ updated' = 0 /\ skipped' = 0
    /\ errors' = <<>>
    /\ frames' = <<>>
    /\ queued' = 0 /\ queuedSet' = {} /\ handled' = {} /\ visited' = <<>>
    /\ problems' = 0 /\ last' = NoLast
    /\ IF Len(dirs) = 0
       THEN /\ s_pc' = "done"
            /\ result' = ScanNoDirectories
            /\ scansDone' = scansDone + 1
            /\ quietScans' = QuietAfterPass
       ELSE /\ s_pc' = "loop"
            /\ result' = NoResult
            /\ UNCHANGED <<scansDone, quietScans>>
    /\ outcomes' = [f \in FitsFiles |-> "none"]
    /\ now' = now + 1
    /\ UNCHANGED <<fsVars, storeVars, envChanges, faults, written>>

\* the initial scan of runMCPServer (mcp-server.go:97-100): the directories
\* expanded at startup, the --force-scan flag
StartupScan ==
    /\ startupPending
    /\ startupPending' = FALSE
    /\ \E force \in BOOLEAN : StartScan(dbBaseDirs, force)

\* the scan of rescan_fits_directory (mcp-server.go:341-344): the
\* directories are expanded again
RescanScan ==
    /\ UNCHANGED startupPending
    /\ \E force \in BOOLEAN : StartScan(expandDirectories(cfgPatterns, dirState), force)

\* where Scan's loop goes on after a missing directory: continue (line 72)
AfterMissingDirMutant(i, n) == n + 1
AfterMissingDir(i, n) == i + 1

\* one round of the loop over baseDirs (lines 67-81), up to the point where
\* walkDirectory has read the directory and started its workers
\* (lines 108-128)
ScanNextDir ==
    /\ UNCHANGED beyondScan
    /\ s_pc = "loop"
    /\ frames = <<>>
    /\ dirIdx <= Len(s_baseDirs)
    /\ LET dir == s_baseDirs[dirIdx]
       IN  IF dirState[dir] = "missing"
           THEN /\ errors' = Append(errors, ErrorEntry("directory does not exist", dir))
                /\ problems' = problems + 1
                /\ visited' = Append(visited, [dir |-> dir, status |-> "missing"])
                /\ dirIdx' = AfterMissingDir(dirIdx, Len(s_baseDirs))
                /\ UNCHANGED frames
           ELSE IF ReadDirFails(dir)
           THEN /\ errors' = Append(errors, ErrorEntry("failed to read directory", dir))
                /\ problems' = problems + 1
                /\ visited' = Append(visited, [dir |-> dir, status |-> "unreadable"])
                /\ dirIdx' = dirIdx + 1
                /\ UNCHANGED frames
           ELSE /\ frames' = <<NewFrame(dir)>>
                /\ visited' = Append(visited, [dir |-> dir, status |-> "walked"])
                /\ UNCHANGED <<errors, problems, dirIdx>>
    /\ UNCHANGED <<fsVars, storeVars, s_pc, s_baseDirs, s_force, scanned, added,
                   updated, skipped, result, runVars, queued, queuedSet, handled,
                   last, written, outcomes, now, quietScans>>

\* the innermost walkDirectory call takes the next entry (lines 131-148):
\* a subdirectory is walked when recursive is set, a FITS file is sent to
\* the channel (the send waits while the channel is full), anything else is
\* passed over.  s.limit is -1, so the limit test never stops the loop.
QueueEntry ==
    /\ UNCHANGED beyondScan
    /\ s_pc = "loop"
    /\ frames # <<>>
    /\ LET top == Len(frames)
           fr == frames[top]
       IN  /\ ~fr.closed
           /\ fr.entries # <<>>
           /\ LET entry == Head(fr.entries)
                  fullPath == Append(fr.dir, entry.name)
                  rest == [frames EXCEPT ![top].entries = Tail(fr.entries)]
              IN  IF entry.isDir
                  THEN /\ IF recursive /\ ReadDirFails(fullPath)
                          THEN /\ errors' = Append(errors,
                                      ErrorEntry("failed to read directory", fullPath))
                               /\ problems' = problems + 1
                               /\ frames' = rest
                          ELSE /\ frames' = IF recursive
                                            THEN Append(rest, NewFrame(fullPath))
                                            ELSE rest
                               /\ UNCHANGED <<errors, problems>>
                       /\ UNCHANGED <<queued, queuedSet>>
                  ELSE IF isFITSFile(entry.name)
                  THEN /\ Len(fr.chan) < ChanCap
                       /\ frames' = [rest EXCEPT ![top].chan = Append(fr.chan, fullPath)]
                       /\ queued' = queued + 1
                       /\ queuedSet' = queuedSet \cup {fullPath}
                       /\ UNCHANGED <<errors, problems>>
                  ELSE /\ frames' = rest
                       /\ UNCHANGED <<errors, problems, queued, queuedSet>>
    /\ UNCHANGED <<fsVars, storeVars, s_pc, s_baseDirs, s_force, dirIdx, scanned,
                   added, updated, skipped, result, runVars, handled, visited,
                   last, written, outcomes, now, quietScans>>

\* close(fileChan) (line 150)
CloseChan ==
    /\ UNCHANGED beyondScan
    /\ s_pc = "loop"
    /\ frames # <<>>
    /\ ~frames[Len(frames)].closed
    /\ frames[Len(frames)].entries = <<>>
    /\ frames' = [frames EXCEPT ![Len(frames)].closed = TRUE]
    /\ UNCHANGED <<fsVars, storeVars, s_pc, s_baseDirs, s_force, dirIdx, scanned,
                   added, updated, skipped, errors, result, runVars, obsVars>>

\* what is left in the channel for the workers after a processFile call:
\* the range loop of the worker goes on whatever the call met (lines 124-126)
WorkerLoopRestMutant(res, rest) == IF res.errs # <<>> THEN <<>> ELSE rest
WorkerLoopRest(res, rest) == rest

\* atomic.Int64.Add on a counter of the Scanner (part_001:164-245)
AtomicAddMutant(counter, n) == IF counter >= 1 THEN counter ELSE counter + n
AtomicAdd(counter, n) == counter + n

\* a worker of walkDirectory call i receives a path and processes it
\* (lines 124-126)
WorkerProcess(i) ==
    /\ UNCHANGED beyondScan
    /\ s_pc = "loop"
    /\ i \in 1..Len(frames)
    /\ frames[i].workers > 0
    /\ frames[i].chan # <<>>
    /\ \E fault \in {"none", "lookup", "write"} :
          LET filePath == Head(frames[i].chan)
              res == processFile(filePath, fault = "lookup", fault = "write")
          IN  /\ fault = "lookup" => (faults < MaxFaults /\ res.tag = "lookup")
              /\ fault = "write" => (faults < MaxFaults /\ res.tag = "save")
              /\ faults' = IF fault = "none" THEN faults ELSE faults + 1
              /\ quietScans' = IF fault = "none" THEN quietScans ELSE QuietAfterChange
              /\ frames' = [frames EXCEPT ![i].chan = WorkerLoopRest(res, Tail(frames[i].chan))]
              /\ scanned' = AtomicAdd(scanned, 1)
              /\ skipped' = AtomicAdd(skipped, res.skipped)
              /\ added' = AtomicAdd(added, res.added)
              /\ updated' = AtomicAdd(updated, res.updated)
              /\ errors' = errors \o res.errs
              /\ problems' = problems + (IF res.tag \in {"unchanged", "notlight", "added", "updated"}
                                         THEN 0 ELSE 1)
              /\ index' = res.index
              /\ handled' = handled \cup {filePath}
              /\ written' = IF res.wrote THEN written \cup {filePath} ELSE written
              /\ outcomes' = [outcomes EXCEPT ![filePath] = res.tag]
              /\ last' = [file |-> filePath, tag |-> res.tag, fault |-> fault # "none"]
    /\ UNCHANGED <<fsVars, recursive, dbBaseDirs, s_pc, s_baseDirs, s_force, dirIdx,
                   result, startupPending, scansDone, envChanges, queued, queuedSet,
                   visited, now>>

\* a worker finds its channel closed and empty and returns: wg.Done()
\* (lines 123-127)
WorkerExit(i) ==
    /\ UNCHANGED beyondScan
    /\ s_pc = "loop"
    /\ i \in 1..Len(frames)
    /\ frames[i].closed
    /\ frames[i].chan = <<>>
    /\ frames[i].workers > 0
    /\ frames' = [frames EXCEPT ![i].workers = @ - 1]
    /\ UNCHANGED <<fsVars, storeVars, s_pc, s_baseDirs, s_force, dirIdx, scanned,
                   added, updated, skipped, errors, result, runVars, obsVars>>

\* wg.Wait() is over and walkDirectory returns (lines 151-153); the return
\* of the outermost call ends one round of Scan's loop
WalkReturn ==
    /\ UNCHANGED beyondScan
    /\ s_pc = "loop"
    /\ frames # <<>>
    /\ frames[Len(frames)].closed
    /\ frames[Len(frames)].workers = 0
    /\ frames' = SubSeq(frames, 1, Len(frames) - 1)
    /\ dirIdx' = IF Len(frames) = 1 THEN dirIdx + 1 ELSE dirIdx
    /\ UNCHANGED <<fsVars, storeVars, s_pc, s_baseDirs, s_force, scanned,
                   added, updated, skipped, errors, result, runVars, obsVars>>

\* the loop is over: the result is built and returned (lines 83-103)
ScanFinish ==
    /\ UNCHANGED beyondScan
    /\ s_pc = "loop"
    /\ frames = <<>>
    /\ dirIdx > Len(s_baseDirs)
    /\ result' = ScanResult(scanned, added, updated, skipped, errors)
    /\ s_pc' = "done"
    /\ scansDone' = scansDone + 1
    /\ quietScans' = QuietAfterPass
    /\ UNCHANGED <<fsVars, storeVars, s_baseDirs, s_force, dirIdx, scanned, added,
                   updated, skipped, errors, frames, startupPending, envChanges,
                   faults, queued, queuedSet, handled, visited, problems, last,
                   written, outcomes, now>>

(***************************************************************************)
(* The environment: directories come and go, files are touched.  It acts   *)
(* between the passes: after the directories were expanded at startup and  *)
(* before the startup scan walks them, or between two scans; a change      *)
(* after the last scan of a run is seen by no scan and is left out.        *)
(***************************************************************************)
SetDirState(dir, st) ==
    /\ UNCHANGED beyondScan
    /\ s_pc # "loop"
    /\ scansDone < MaxScans
    /\ envChanges < MaxEnv
    /\ dirState[dir] # st
    /\ dirState' = [dirState EXCEPT ![dir] = st]
    /\ envChanges' = envChanges + 1
    /\ quietScans' = QuietAfterChange
    /\ UNCHANGED <<files, mtime, storeVars, scannerVars, startupPending, scansDone,
                   faults, queued, queuedSet, handled, visited, problems, last,
                   written, outcomes, now>>

Touch(f) ==
    /\ UNCHANGED beyondScan
    /\ s_pc # "loop"
    /\ scansDone < MaxScans
    /\ envChanges < MaxEnv
    /\ mtime' = [mtime EXCEPT ![f] = @ + 1]
    /\ envChanges' = envChanges + 1
    /\ quietScans' = QuietAfterChange
    /\ UNCHANGED <<dirState, files, storeVars, scannerVars, startupPending, scansDone,
                   faults, queued, queuedSet, handled, visited, problems, last,
                   written, outcomes, now>>

\* the values the variables of a part of the program keep while another
\* part is looked at
ServerIdle ==
    /\ scanMutex = Free
    /\ scanningNow = FALSE
    /\ lastScanTime = 0
    /\ pc = [t \in Threads |-> IF t \in Handlers THEN "idle"
                               ELSE IF t = StartupThread THEN "off" ELSE "free"]
    /\ resp = [h \in Handlers |-> NoResponse]
    /\ clock = 1
    /\ calls = 0
    /\ spawned = 0
    /\ accepted = 0
    /\ rejected = 0

ScanIdle ==
    /\ dirState = [d \in TopDirs |-> "ok"]
    /\ files = [f \in FitsFiles |-> Good]
    /\ mtime = [f \in FitsFiles |-> 1]
    /\ recursive = TRUE
    /\ dbBaseDirs = expandDirectories(cfgPatterns, dirState)
    /\ index = [rp \in RelPaths |-> NoRow]
    /\ s_pc = "idle"
    /\ s_baseDirs = <<>>
    /\ s_force = FALSE
    /\ dirIdx = 1
    /\ scanned = 0 /\ added = 0 /\ updated = 0 /\ skipped = 0
    /\ errors = <<>>
    /\ frames = <<>>
    /\ result = NoResult
    /\ startupPending = FALSE
    /\ scansDone = 0
    /\ envChanges = 0
    /\ faults = 0
    /\ queued = 0 /\ queuedSet = {} /\ handled = {} /\ visited = <<>>
    /\ problems = 0 /\ last = NoLast
    /\ written = {}
    /\ outcomes = [f \in FitsFiles |-> "none"]
    /\ now = 1
    /\ quietScans = 0

\* the goroutines that call the store: scanner workers that upsert, a caller
\* of DeleteFile, a caller of GetFileByPath, a caller of ExecuteReadOnlyQuery
Writers == {"w1", "w2"}
Deleters == {"d1"}
Readers == {"r1"}
Queriers == {"q1"}
Callers == Writers \cup Deleters \cup Readers \cup Queriers

\* a caller without an argument or a result (the argument goes out of scope
\* when the call returns), and a call still in progress
NoCall == [kind |-> "none"]
Pending == [kind |-> "pending"]

\* the store after NewDatabase on a new file: the table is empty
StoreIdle ==
    /\ table = {}
    /\ nextId = 1
    /\ writeMu = Free
    /\ dbpc = [c \in Callers |-> "idle"]
    /\ dbarg = [c \in Callers |-> NoCall]
    /\ dbret = [c \in Callers |-> NoCall]
    /\ sent = <<>>
    /\ dbNow = 1
    /\ dbOps = 0
    /\ schema = {"fits_files", "idx_object", "idx_filter", "idx_telescope",
                 "idx_utc_time", "idx_hash", "idx_relative_path", "schema_version"}

PureIdle ==
    /\ p_arg = NoRet
    /\ p_ret = NoRet

WalkIdle ==
    /\ w_tree = <<>>
    /\ w_pc = "idle"
    /\ w_dirIdx = 1
    /\ w_frames = <<>>
    /\ w_calls = <<>>

\* the address of the ScanState that the package variable scanState points
\* to (register.go:13)
scanState == 1

\* scanState = &ScanState{} (register.go:13): not scanning, the zero time
ToolsIdle ==
    /\ objects = <<[Scanning |-> FALSE, LastScanTime |-> 0]>>
    /\ held = {}
    /\ toolOp = "none"

\* the state when the server is up: the database has been opened on the
\* directories expanded at startup (mcp-server.go:80-93), which are not
\* empty; the index is empty
ScanInit ==
    /\ dirState \in {st \in [TopDirs -> {"ok", "missing", "unreadable"}] : st[DirA] = "ok" /\ st[DirB] # "unreadable"}
    /\ expandDirectories(cfgPatterns, dirState) # <<>>
    /\ files \in {fk \in [FitsFiles -> AllKinds] : \A f \in FitsFiles : fk[f] \in KindsOf(f)}
    /\ mtime = [f \in FitsFiles |-> 1]
    /\ recursive \in BOOLEAN
    /\ dbBaseDirs = expandDirectories(cfgPatterns, dirState)
    /\ index = [rp \in RelPaths |-> NoRow]
    /\ s_pc = "idle"
    /\ s_baseDirs = <<>>
    /\ s_force = FALSE
    /\ dirIdx = 1
    /\ scanned = 0 /\ added = 0 /\ updated = 0 /\ skipped = 0
    /\ errors = <<>>
    /\ frames = <<>>
    /\ result = NoResult
    /\ startupPending = TRUE
    /\ scansDone = 0
    /\ envChanges = 0
    /\ faults = 0
    /\ queued = 0 /\ queuedSet = {} /\ handled = {} /\ visited = <<>>
    /\ problems = 0 /\ last = NoLast
    /\ written = {}
    /\ outcomes = [f \in FitsFiles |-> "none"]
    /\ now = 1
    /\ quietScans = 0
    /\ ServerIdle
    /\ PureIdle
    /\ StoreIdle
    /\ WalkIdle
    /\ ToolsIdle

ScanNext ==
    \/ StartupScan
    \/ RescanScan
    \/ ScanNextDir
    \/ QueueEntry
    \/ CloseChan
    \/ \E i \in 1..2 : WorkerProcess(i)
    \/ \E i \in 1..2 : WorkerExit(i)
    \/ WalkReturn
    \/ ScanFinish
    \/ \E d \in TopDirs, st \in {"ok", "missing", "unreadable"} : SetDirState(d, st)
    \/ \E f \in FitsFiles : Touch(f)

\* the state when runMCPServer has registered its tools (mcp-server.go:41-112):
\* cfg.Scan.OnStartup decides whether the startup goroutine exists at all
ServerInit ==
    /\ scanMutex = Free
    /\ scanningNow = FALSE
    /\ lastScanTime = 0
    /\ \E onStartup \in BOOLEAN :
          pc = [t \in Threads |->
                  IF t = StartupThread
                  THEN (IF onStartup THEN "spawned" ELSE "off")
                  ELSE IF t \in Handlers THEN "idle" ELSE "free"]
    /\ resp = [h \in Handlers |-> NoResponse]
    /\ clock = 1
    /\ calls = 0
    /\ spawned = 0
    /\ accepted = 0
    /\ rejected = 0
    /\ ScanIdle
    /\ PureIdle
    /\ StoreIdle
    /\ WalkIdle
    /\ ToolsIdle

(***************************************************************************)
(* The gate of the ad hoc queries (database.go:154-177).  A text is the    *)
(* sequence of its characters.                                             *)
(***************************************************************************)
LowerCase ==
    <<"a", "b", "c", "d", "e", "f", "g", "h", "i", "j", "k", "l", "m", "n",
      "o", "p", "q", "r", "s", "t", "u", "v", "w", "x", "y", "z">>
UpperCase ==
    <<"A", "B", "C", "D", "E", "F", "G", "H", "I", "J", "K", "L", "M", "N",
      "O", "P", "Q", "R", "S", "T", "U", "V", "W", "X", "Y", "Z">>

\* strings.ToUpper
ToUpperMutant(text) == text
ToUpper(text) ==
    [i \in 1..Len(text) |->
        IF \E k \in 1..Len(LowerCase) : LowerCase[k] = text[i]
        THEN UpperCase[CHOOSE k \in 1..Len(LowerCase) : LowerCase[k] = text[i]]
        ELSE text[i]]

\* the white space strings.TrimSpace removes
WhiteSpace == {" ", "\t", "\n", "\r"}

RECURSIVE TrimLeft(_)
TrimLeft(text) ==
    IF text # <<>> /\ Head(text) \in WhiteSpace THEN TrimLeft(Tail(text)) ELSE text

RECURSIVE TrimRight(_)
TrimRight(text) ==
    IF text # <<>> /\ text[Len(text)] \in WhiteSpace
    THEN TrimRight(SubSeq(text, 1, Len(text) - 1))
    ELSE text

\* strings.HasPrefix
HasPrefix(text, prefix) ==
    Len(prefix) <= Len(text) /\ SubSeq(text, 1, Len(prefix)) = prefix

\* strings.Contains: substr begins at some position of text
RECURSIVE Contains(_, _)
Contains(text, substr) ==
    IF Len(text) < Len(substr) THEN FALSE
    ELSE HasPrefix(text, substr) \/ Contains(Tail(text), substr)

KwSelect ==
    <<"S", "E", "L", "E", "C", "T">>

\* the forbidden keywords, in the order of the list at lines 165-168
forbidden ==
    <<<<"I", "N", "S", "E", "R", "T">>,
      <<"U", "P", "D", "A", "T", "E">>,
      <<"D", "E", "L", "E", "T", "E">>,
      <<"D", "R", "O", "P">>,
      <<"C", "R", "E", "A", "T", "E">>,
      <<"A", "L", "T", "E", "R">>,
      <<"T", "R", "U", "N", "C", "A", "T", "E">>,
      <<"R", "E", "P", "L", "A", "C", "E">>,
      <<"A", "T", "T", "A", "C", "H">>,
      <<"D", "E", "T", "A", "C", "H">>,
      <<"P", "R", "A", "G", "M", "A">>>>

\* the first forbidden keyword the text contains, <<>> when there is none
RECURSIVE FirstForbidden(_, _)
FirstForbidden(normalized, keywords) ==
    IF keywords = <<>> THEN <<>>
    ELSE IF Contains(normalized, Head(keywords)) THEN Head(keywords)
    ELSE FirstForbidden(normalized, Tail(keywords))

\* fmt.Errorf("forbidden keyword in query: %s", keyword) at line 172
forbiddenErrorMutant(keyword) ==
    [ok |-> FALSE, err |-> "forbidden keyword in query", keyword |-> <<>>]
forbiddenError(keyword) ==
    [ok |-> FALSE, err |-> "forbidden keyword in query", keyword |-> keyword]

\* validateReadOnlyQuery: nil, or the error and the offending keyword
validateReadOnlyQueryMutant(query) == [ok |-> TRUE, err |-> "", keyword |-> <<>>]
validateReadOnlyQuery(query) ==
    LET normalized == TrimRight(TrimLeft(ToUpper(query)))
    IN  IF ~HasPrefix(normalized, KwSelect)
        THEN [ok |-> FALSE, err |-> "only SELECT queries are allowed", keyword |-> <<>>]
        ELSE IF FirstForbidden(normalized, forbidden) # <<>>
        THEN forbiddenError(FirstForbidden(normalized, forbidden))
        ELSE [ok |-> TRUE, err |-> "", keyword |-> <<>>]

\* the texts the gate is given
\* the query of the specification that must succeed
QSelectAll ==
    <<"S", "E", "L", "E", "C", "T", " ", "*", " ", "F", "R", "O", "M", " ",
      "f", "i", "t", "s", "_", "f", "i", "l", "e", "s">>
\* lower case, surrounded by white space
QSelectPadded ==
    <<" ", " ", "s", "e", "l", "e", "c", "t", " ", "*", " ", "F", "r", "o",
      "m", " ", "f", "i", "t", "s", "_", "f", "i", "l", "e", "s", "\n">>
\* the statement of the specification that must be rejected
QDeleteAll ==
    <<"D", "E", "L", "E", "T", "E", " ", "F", "R", "O", "M", " ", "f", "i",
      "t", "s", "_", "f", "i", "l", "e", "s">>
\* a query followed by a statement that is not on the list
QSelectAnalyze ==
    <<"S", "E", "L", "E", "C", "T", " ", "1", ";", " ", "A", "N", "A", "L",
      "Y", "Z", "E">>
\* a leading tab
QSelectCount ==
    <<"\t", "S", "E", "L", "E", "C", "T", " ", "c", "o", "u", "n", "t",
      "(", "*", ")", " ", "F", "R", "O", "M", " ", "f", "i", "t", "s", "_",
      "f", "i", "l", "e", "s">>

\* the texts the callers pass: the five above and
QueryTexts ==
    {QSelectAll, QSelectPadded, QDeleteAll, QSelectCount, QSelectAnalyze,
     \* a second statement after the SELECT
     <<"S", "E", "L", "E", "C", "T", " ", "1", ";", " ", "D", "R", "O", "P",
       " ", "T", "A", "B", "L", "E", " ", "f", "i", "t", "s", "_", "f", "i",
       "l", "e", "s">>,
     \* a denylisted word used as a function
     <<"s", "e", "l", "e", "c", "t", " ", "r", "e", "p", "l", "a", "c", "e",
       "(", "o", "b", "j", "e", "c", "t", ",", " ", "'", "M", "'", ",", " ",
       "'", "N", "'", ")", " ", "f", "r", "o", "m", " ", "f", "i", "t", "s",
       "_", "f", "i", "l", "e", "s">>,
     \* a denylisted word inside a longer word
     <<"S", "E", "L", "E", "C", "T", " ", "'", "u", "p", "d", "a", "t", "e",
       "d", "'">>,
     \* begins with SELECT and is no SQL
     <<"S", "E", "L", "E", "C", "T", "E", "D">>,
     \* a read-only query that does not begin with SELECT
     <<"W", "I", "T", "H", " ", "t", " ", "A", "S", " ", "(", "S", "E", "L",
       "E", "C", "T", " ", "1", ")", " ", "S", "E", "L", "E", "C", "T", " ",
       "*", " ", "F", "R", "O", "M", " ", "t">>,
     \* the empty text
     <<>>,
     \* a write in lower case
     <<"i", "n", "s", "e", "r", "t", " ", "i", "n", "t", "o", " ", "f", "i",
       "t", "s", "_", "f", "i", "l", "e", "s", " ", "(", "o", "b", "j", "e",
       "c", "t", ")", " ", "v", "a", "l", "u", "e", "s", " ", "(", "'", "M",
       "3", "1", "'", ")">>,
     \* a table-valued pragma
     <<"S", "E", "L", "E", "C", "T", " ", "*", " ", "F", "R", "O", "M", " ",
       "p", "r", "a", "g", "m", "a", "_", "t", "a", "b", "l", "e", "_", "i",
       "n", "f", "o", "(", "'", "f", "i", "t", "s", "_", "f", "i", "l", "e",
       "s", "'", ")">>}

(***************************************************************************)
(* The store and its callers (database.go).  Scanner workers call          *)
(* InsertOrUpdateFile, the tools call GetFileByPath and                    *)
(* ExecuteReadOnlyQuery; DeleteFile is a method of the store that no code  *)
(* of the repository calls.  A statement takes effect on the table in one  *)
(* step, between the start and the return of its Exec or Query call.       *)
(***************************************************************************)

\* the relative paths and the FITSFile records the callers use
StorePaths == {<<"x.fits">>, <<"s", "y.FIT">>}
FileRec(rp, v) ==
    [RelativePath |-> rp, Hash |-> <<"sha", v>>, FileModTime |-> v,
     Object |-> (IF v = 1 THEN "M31" ELSE "M42"),
     Filter |-> (IF v = 1 THEN "Ha" ELSE "OIII")]


\* the callers that are inside an Exec call on the table
Writing == {c \in Callers : dbpc[c] = "writing"}

\* the rows of a relative path
RowsOf(tbl, rp) == {r \in tbl : r.relative_path = rp}

\* INSERT ... ON CONFLICT(relative_path) DO UPDATE SET ... (lines 193-218):
\* the row of the path gets every column of the record and the time of the
\* clock; a new row gets the next id and the DEFAULT of row_mod_time
UpsertMutant(tbl, file, clk, id) ==
    tbl \cup {[id |-> id, relative_path |-> file.RelativePath, hash |-> file.Hash,
               file_mod_time |-> file.FileModTime, row_mod_time |-> clk,
               object |-> file.Object, filter |-> file.Filter]}
Upsert(tbl, file, clk, id) ==
    IF RowsOf(tbl, file.RelativePath) = {}
    THEN tbl \cup {[id |-> id, relative_path |-> file.RelativePath,
                    hash |-> file.Hash, file_mod_time |-> file.FileModTime,
                    row_mod_time |-> clk, object |-> file.Object,
                    filter |-> file.Filter]}
    ELSE {IF r.relative_path = file.RelativePath
          THEN [r EXCEPT !.hash = file.Hash, !.file_mod_time = file.FileModTime,
                         !.row_mod_time = clk, !.object = file.Object,
                         !.filter = file.Filter]
          ELSE r : r \in tbl}

\* InsertOrUpdateFile is called by a worker
InsertCall(w) ==
    /\ UNCHANGED beyondStore
    /\ UNCHANGED schema
    /\ dbpc[w] = "idle"
    /\ dbOps < MaxOps
    /\ \E rp \in StorePaths, v \in 1..2 : dbarg' = [dbarg EXCEPT ![w] = FileRec(rp, v)]
    /\ dbpc' = [dbpc EXCEPT ![w] = "lock"]
    /\ dbret' = [dbret EXCEPT ![w] = Pending]
    /\ dbOps' = dbOps + 1
    /\ UNCHANGED <<table, nextId, writeMu, sent, dbNow>>

\* d.writeMu.Lock() (line 190)
InsertLock(w) ==
    /\ UNCHANGED beyondStore
    /\ UNCHANGED schema
    /\ dbpc[w] = "lock"
    /\ writeMu = Free
    /\ writeMu' = w
    /\ dbpc' = [dbpc EXCEPT ![w] = "locked"]
    /\ UNCHANGED <<table, nextId, dbarg, dbret, sent, dbNow, dbOps>>

\* d.db.Exec(query, ...) is entered (line 221)
InsertExecBegin(w) ==
    /\ UNCHANGED beyondStore
    /\ UNCHANGED schema
    /\ dbpc[w] = "locked"
    /\ dbpc' = [dbpc EXCEPT ![w] = "writing"]
    /\ UNCHANGED <<table, nextId, writeMu, dbarg, dbret, sent, dbNow, dbOps>>

\* the statement takes effect and Exec returns (lines 221-228)
InsertExecEnd(w) ==
    /\ UNCHANGED beyondStore
    /\ UNCHANGED schema
    /\ dbpc[w] = "writing"
    /\ table' = Upsert(table, dbarg[w], dbNow, nextId)
    /\ nextId' = IF RowsOf(table, dbarg[w].RelativePath) = {} THEN nextId + 1 ELSE nextId
    /\ dbpc' = [dbpc EXCEPT ![w] = "written"]
    /\ dbret' = [dbret EXCEPT ![w] = [kind |-> "ok"]]
    /\ UNCHANGED <<writeMu, dbarg, sent, dbNow, dbOps>>

\* the deferred d.writeMu.Unlock() (line 191) and the return
InsertUnlock(w) ==
    /\ UNCHANGED beyondStore
    /\ UNCHANGED schema
    /\ dbpc[w] = "written"
    /\ writeMu' = Free
    /\ dbpc' = [dbpc EXCEPT ![w] = "idle"]
    /\ dbarg' = [dbarg EXCEPT ![w] = NoCall]
    /\ UNCHANGED <<table, nextId, dbret, sent, dbNow, dbOps>>

\* DeleteFile is called: d.db.Exec("DELETE ...") is entered (lines 448-449)
DeleteCall(c) ==
    /\ UNCHANGED beyondStore
    /\ UNCHANGED schema
    /\ dbpc[c] = "idle"
    /\ dbOps < MaxOps
    /\ \E rp \in StorePaths : dbarg' = [dbarg EXCEPT ![c] = rp]
    /\ dbpc' = [dbpc EXCEPT ![c] = "writing"]
    /\ dbret' = [dbret EXCEPT ![c] = Pending]
    /\ dbOps' = dbOps + 1
    /\ UNCHANGED <<table, nextId, writeMu, sent, dbNow>>

\* the DELETE takes effect and DeleteFile returns (lines 449-450)
DeleteExecEnd(c) ==
    /\ UNCHANGED beyondStore
    /\ UNCHANGED schema
    /\ dbpc[c] = "writing"
    /\ table' = table \ RowsOf(table, dbarg[c])
    /\ dbpc' = [dbpc EXCEPT ![c] = "idle"]
    /\ dbarg' = [dbarg EXCEPT ![c] = NoCall]
    /\ dbret' = [dbret EXCEPT ![c] = [kind |-> "ok"]]
    /\ UNCHANGED <<nextId, writeMu, sent, dbNow, dbOps>>

\* a statement that finds the store locked by another writing connection
\* until the busy timeout (line 101) fails and leaves the table as it is
ExecBusy(c) ==
    /\ UNCHANGED beyondStore
    /\ UNCHANGED schema
    /\ dbpc[c] = "writing"
    /\ Writing \ {c} # {}
    /\ dbpc' = [dbpc EXCEPT ![c] = IF c \in Writers THEN "written" ELSE "idle"]
    /\ dbarg' = [dbarg EXCEPT ![c] = IF c \in Writers THEN dbarg[c] ELSE NoCall]
    /\ dbret' = [dbret EXCEPT ![c] = [kind |-> "database is locked"]]
    /\ UNCHANGED <<table, nextId, writeMu, sent, dbNow, dbOps>>

\* GetFileByPath is called: d.db.QueryRow is entered (lines 232-243)
ReadCall(r) ==
    /\ UNCHANGED beyondStore
    /\ UNCHANGED schema
    /\ dbpc[r] = "idle"
    /\ dbOps < MaxOps
    /\ \E rp \in StorePaths : dbarg' = [dbarg EXCEPT ![r] = rp]
    /\ dbpc' = [dbpc EXCEPT ![r] = "reading"]
    /\ dbret' = [dbret EXCEPT ![r] = Pending]
    /\ dbOps' = dbOps + 1
    /\ UNCHANGED <<table, nextId, writeMu, sent, dbNow>>

\* the row is scanned and GetFileByPath returns it, or nil without a row
\* (lines 243-258)
ReadReturn(r) ==
    /\ UNCHANGED beyondStore
    /\ UNCHANGED schema
    /\ dbpc[r] = "reading"
    /\ dbpc' = [dbpc EXCEPT ![r] = "idle"]
    /\ dbarg' = [dbarg EXCEPT ![r] = NoCall]
    /\ dbret' = [dbret EXCEPT ![r] = [kind |-> "rows", rows |-> RowsOf(table, dbarg[r])]]
    /\ UNCHANGED <<table, nextId, writeMu, sent, dbNow, dbOps>>

\* what the store does with a text db.Query passes to it: the rows of a
\* SELECT, the effect of a DELETE, an error for what it cannot run.  The
\* driver runs every statement of a text that holds several: the row of the
\* SELECT is returned and ANALYZE creates the statistics table
StoreRun(text, tbl, sch) ==
    IF text \in {QSelectAll, QSelectPadded}
    THEN [kind |-> "rows", rows |-> tbl, table |-> tbl, schema |-> sch]
    ELSE IF text = QSelectCount
    THEN [kind |-> "rows", rows |-> {Cardinality(tbl)}, table |-> tbl, schema |-> sch]
    ELSE IF text = QDeleteAll
    THEN [kind |-> "rows", rows |-> {}, table |-> {}, schema |-> sch]
    ELSE IF text = QSelectAnalyze
    THEN [kind |-> "rows", rows |-> {1}, table |-> tbl,
          schema |-> sch \cup {"sqlite_stat1"}]
    ELSE [kind |-> "query execution failed", rows |-> {}, table |-> tbl, schema |-> sch]

\* the result of validateReadOnlyQuery(query) at line 526, for each text a
\* caller passes
validation == [text \in QueryTexts |-> validateReadOnlyQuery(text)]

\* ExecuteReadOnlyQuery is called: the text is validated and either rejected
\* or passed to d.db.Query (lines 524-534)
QueryCall(q) ==
    /\ UNCHANGED beyondStore
    /\ UNCHANGED schema
    /\ dbpc[q] = "idle"
    /\ dbOps < MaxOps
    /\ \E text \in QueryTexts :
          /\ dbarg' = [dbarg EXCEPT ![q] = text]
          /\ IF validation[text].ok
             THEN /\ dbpc' = [dbpc EXCEPT ![q] = "querying"]
                  /\ dbret' = [dbret EXCEPT ![q] = Pending]
                  /\ sent' = Append(sent, text)
             ELSE /\ dbret' = [dbret EXCEPT ![q] =
                                  [kind |-> "validation error", rows |-> {},
                                   err |-> validation[text].err,
                                   keyword |-> validation[text].keyword]]
                  /\ UNCHANGED <<dbpc, sent>>
    /\ dbOps' = dbOps + 1
    /\ UNCHANGED <<table, nextId, writeMu, dbNow>>

\* the store runs the text and ExecuteReadOnlyQuery returns the rows or the
\* error of the execution (lines 534-588)
QueryReturn(q) ==
    /\ UNCHANGED beyondStore
    /\ dbpc[q] = "querying"
    /\ LET res == StoreRun(dbarg[q], table, schema)
       IN  /\ table' = res.table
           /\ schema' = res.schema
           /\ dbret' = [dbret EXCEPT ![q] = [kind |-> res.kind, rows |-> res.rows]]
    /\ dbpc' = [dbpc EXCEPT ![q] = "idle"]
    /\ UNCHANGED <<nextId, writeMu, dbarg, sent, dbNow, dbOps>>

\* a second passes on the store's clock
StoreTick ==
    /\ UNCHANGED beyondStore
    /\ UNCHANGED schema
    /\ dbNow < MaxClock
    /\ dbNow' = dbNow + 1
    /\ UNCHANGED <<table, nextId, writeMu, dbpc, dbarg, dbret, sent, dbOps>>

StoreInit ==
    /\ StoreIdle
    /\ ServerIdle /\ ScanIdle /\ PureIdle
    /\ WalkIdle
    /\ ToolsIdle

StoreNext ==
    \/ \E w \in Writers : InsertCall(w)
    \/ \E w \in Writers : InsertLock(w)
    \/ \E w \in Writers : InsertExecBegin(w)
    \/ \E w \in Writers : InsertExecEnd(w)
    \/ \E w \in Writers : InsertUnlock(w)
    \/ \E c \in Deleters : DeleteCall(c)
    \/ \E c \in Deleters : DeleteExecEnd(c)
    \/ \E c \in Writers \cup Deleters : ExecBusy(c)
    \/ \E r \in Readers : ReadCall(r)
    \/ \E r \in Readers : ReadReturn(r)
    \/ \E q \in Queriers : QueryCall(q)
    \/ \E q \in Queriers : QueryReturn(q)
    \/ StoreTick

SpecStore == StoreInit /\ [][StoreNext]_vars

(***************************************************************************)
(* Scan over directories of any size (part_001:52-154).  The files are     *)
(* candidates only, and a level of a base directory holds `before` FITS    *)
(* files, then its subdirectory (the next level) if it has one, then       *)
(* `after` FITS files.  processFile is a call that returns.                *)
(***************************************************************************)
Level(before, after) == [before |-> before, after |-> after]

\* the trees a pass runs on: a directory with more files than the channel
\* holds, such a directory below and above a small one, three levels, and
\* several base directories of which one is empty
WalkTrees ==
    {<< <<Level(ChanCap + MaxBeyond, 0)>> >>,
     << <<Level(2, 1), Level(ChanCap + MaxBeyond, 0)>> >>,
     << <<Level(ChanCap + MaxBeyond, 0), Level(2, 0)>> >>,
     << <<Level(1, 1), Level(1, 1), Level(1, 0)>> >>,
     << <<Level(1, 0)>>, <<Level(0, 0)>>, <<Level(2, 0)>> >>}

\* the number of entries of a level, and whether entry k is the subdirectory
EntryCount(tree, b, l) ==
    tree[b][l].before + tree[b][l].after + (IF l < Len(tree[b]) THEN 1 ELSE 0)
IsSubdir(tree, b, l, k) == l < Len(tree[b]) /\ k = tree[b][l].before + 1

\* the candidate files of a tree, named by base directory, level and entry
FilesOf(tree) ==
    UNION {UNION {{<<b, l, k>> : k \in {e \in 1..EntryCount(tree, b, l) :
                                         ~IsSubdir(tree, b, l, e)}} :
                     l \in 1..Len(tree[b])} :
              b \in 1..Len(tree)}

\* the state of one walkDirectory call (lines 107-127): the entry to take
\* next, the channel, whether it is closed, the workers that have not
\* returned
WalkFrame(b, l) ==
    [base |-> b, level |-> l, next |-> 1, chan |-> <<>>, closed |-> FALSE,
     workers |-> numWorkers]

\* a worker's range loop can receive from the channel of its call
ReceivableMutant(fr) == fr.workers > 0 /\ fr.closed /\ fr.chan # <<>>
Receivable(fr) == fr.workers > 0 /\ fr.chan # <<>>

\* Scan is called (lines 53-63)
WalkScanStart ==
    /\ UNCHANGED beyondWalk
    /\ w_pc = "idle"
    /\ w_pc' = "loop"
    /\ UNCHANGED <<w_tree, w_dirIdx, w_frames, w_calls>>

\* Scan's loop calls walkDirectory on the next base directory (lines 66-75)
WalkNextDir ==
    /\ UNCHANGED beyondWalk
    /\ w_pc = "loop"
    /\ w_frames = <<>>
    /\ w_dirIdx <= Len(w_tree)
    /\ w_frames' = <<WalkFrame(w_dirIdx, 1)>>
    /\ UNCHANGED <<w_tree, w_pc, w_dirIdx, w_calls>>

\* the innermost call takes its next entry (lines 131-148): a subdirectory
\* is walked, a file is sent to the channel, which waits while it is full
WalkQueueEntry ==
    /\ UNCHANGED beyondWalk
    /\ w_pc = "loop"
    /\ w_frames # <<>>
    /\ LET top == Len(w_frames)
           fr == w_frames[top]
           taken == [w_frames EXCEPT ![top].next = fr.next + 1]
       IN  /\ ~fr.closed
           /\ fr.next <= EntryCount(w_tree, fr.base, fr.level)
           /\ IF IsSubdir(w_tree, fr.base, fr.level, fr.next)
              THEN w_frames' = Append(taken, WalkFrame(fr.base, fr.level + 1))
              ELSE /\ Len(fr.chan) < ChanCap
                   /\ w_frames' = [taken EXCEPT ![top].chan =
                                      Append(fr.chan, <<fr.base, fr.level, fr.next>>)]
    /\ UNCHANGED <<w_tree, w_pc, w_dirIdx, w_calls>>

\* close(fileChan) (line 150)
WalkCloseChan ==
    /\ UNCHANGED beyondWalk
    /\ w_pc = "loop"
    /\ w_frames # <<>>
    /\ LET fr == w_frames[Len(w_frames)]
       IN  /\ ~fr.closed
           /\ fr.next > EntryCount(w_tree, fr.base, fr.level)
    /\ w_frames' = [w_frames EXCEPT ![Len(w_frames)].closed = TRUE]
    /\ UNCHANGED <<w_tree, w_pc, w_dirIdx, w_calls>>

\* a worker of call i receives a path and processes it (lines 124-126)
WalkWorkerProcess(i) ==
    /\ UNCHANGED beyondWalk
    /\ w_pc = "loop"
    /\ i \in 1..Len(w_frames)
    /\ Receivable(w_frames[i])
    /\ w_frames' = [w_frames EXCEPT ![i].chan = Tail(w_frames[i].chan)]
    /\ w_calls' = [w_calls EXCEPT ![Head(w_frames[i].chan)] = @ + 1]
    /\ UNCHANGED <<w_tree, w_pc, w_dirIdx>>

\* a worker finds its channel closed and empty and returns (lines 123-127)
WalkWorkerExit(i) ==
    /\ UNCHANGED beyondWalk
    /\ w_pc = "loop"
    /\ i \in 1..Len(w_frames)
    /\ w_frames[i].closed
    /\ w_frames[i].chan = <<>>
    /\ w_frames[i].workers > 0
    /\ w_frames' = [w_frames EXCEPT ![i].workers = @ - 1]
    /\ UNCHANGED <<w_tree, w_pc, w_dirIdx, w_calls>>

\* wg.Wait() is over and walkDirectory returns (lines 151-153)
WalkDirectoryReturn ==
    /\ UNCHANGED beyondWalk
    /\ w_pc = "loop"
    /\ w_frames # <<>>
    /\ w_frames[Len(w_frames)].closed
    /\ w_frames[Len(w_frames)].workers = 0
    /\ w_frames' = SubSeq(w_frames, 1, Len(w_frames) - 1)
    /\ w_dirIdx' = IF Len(w_frames) = 1 THEN w_dirIdx + 1 ELSE w_dirIdx
    /\ UNCHANGED <<w_tree, w_pc, w_calls>>

\* the loop is over and Scan returns its result (lines 83-103)
WalkScanFinish ==
    /\ UNCHANGED beyondWalk
    /\ w_pc = "loop"
    /\ w_frames = <<>>
    /\ w_dirIdx > Len(w_tree)
    /\ w_pc' = "done"
    /\ UNCHANGED <<w_tree, w_dirIdx, w_frames, w_calls>>

WalkInit ==
    /\ w_tree \in WalkTrees
    /\ w_pc = "idle"
    /\ w_dirIdx = 1
    /\ w_frames = <<>>
    /\ w_calls = [f \in FilesOf(w_tree) |-> 0]
    /\ ServerIdle
    /\ ScanIdle
    /\ PureIdle
    /\ StoreIdle
    /\ ToolsIdle

\* the goroutine of Scan
WalkProducer ==
    \/ WalkScanStart
    \/ WalkNextDir
    \/ WalkQueueEntry
    \/ WalkCloseChan
    \/ WalkDirectoryReturn
    \/ WalkScanFinish

WalkNext ==
    \/ WalkProducer
    \/ \E i \in 1..3 : WalkWorkerProcess(i)
    \/ \E i \in 1..3 : WalkWorkerExit(i)

SpecWalk == WalkInit /\ [][WalkNext]_vars

\* the pass under fair scheduling: every goroutine that can run is run
SpecWalkFair ==
    /\ SpecWalk
    /\ WF_vars(WalkProducer)
    /\ \A i \in 1..3 : WF_vars(WalkWorkerProcess(i)) /\ WF_vars(WalkWorkerExit(i))

(***************************************************************************)
(* The scan state of package tools (mcp-server/tools/register.go and the   *)
(* rescan handler of get_configuration.go).  Every operation runs inside   *)
(* scanMutex and is one step.  A caller of GetScanState holds the address  *)
(* of the value it got and may write its fields.                           *)
(***************************************************************************)
\* the address GetScanState returns: that of a new ScanState (line 34)
ReturnedAddressMutant(objs) == scanState
ReturnedAddress(objs) == Len(objs) + 1

\* GetScanState (register.go:31-38)
GetScanState ==
    /\ UNCHANGED beyondTools
    /\ Len(objects) <= MaxSnapshots
    /\ LET copy == [Scanning |-> objects[scanState].Scanning,
                    LastScanTime |-> objects[scanState].LastScanTime]
           addr == ReturnedAddress(objects)
       IN  /\ objects' = IF addr > Len(objects) THEN Append(objects, copy)
                         ELSE [objects EXCEPT ![addr] = copy]
           /\ held' = held \cup {addr}
    /\ toolOp' = "GetScanState"

\* a caller assigns the fields of a value it got from GetScanState
CallerWrite(addr, scanning, t) ==
    /\ UNCHANGED beyondTools
    /\ addr \in held
    /\ objects[addr] # [Scanning |-> scanning, LastScanTime |-> t]
    /\ objects' = [objects EXCEPT ![addr] = [Scanning |-> scanning, LastScanTime |-> t]]
    /\ toolOp' = "write"
    /\ UNCHANGED held

\* SetLastScanTime (register.go:41-45)
SetLastScanTime(t) ==
    /\ UNCHANGED beyondTools
    /\ objects' = [objects EXCEPT ![scanState].LastScanTime = t]
    /\ toolOp' = "SetLastScanTime"
    /\ UNCHANGED held

\* the rescan handler tests and sets the flag (get_configuration.go:71-85)
ToolsRescan ==
    /\ UNCHANGED beyondTools
    /\ objects' = [objects EXCEPT ![scanState].Scanning = TRUE]
    /\ toolOp' = IF objects[scanState].Scanning THEN "already_running" ELSE "started"
    /\ UNCHANGED held

\* the deferred function of the scan goroutine (get_configuration.go:88-93)
ToolsScanEnd(t) ==
    /\ UNCHANGED beyondTools
    /\ objects[scanState].Scanning
    /\ objects' = [objects EXCEPT ![scanState] = [Scanning |-> FALSE, LastScanTime |-> t]]
    /\ toolOp' = "scanEnd"
    /\ UNCHANGED held

ToolsInit ==
    /\ ToolsIdle
    /\ ServerIdle
    /\ ScanIdle
    /\ PureIdle
    /\ StoreIdle
    /\ WalkIdle

ToolsNext ==
    \/ GetScanState
    \/ \E addr \in 1..(MaxSnapshots + 1), scanning \in BOOLEAN, t \in 0..MaxClock :
          CallerWrite(addr, scanning, t)
    \/ \E t \in 0..MaxClock : SetLastScanTime(t)
    \/ ToolsRescan
    \/ \E t \in 1..MaxClock : ToolsScanEnd(t)

SpecTools == ToolsInit /\ [][ToolsNext]_vars

(***************************************************************************)
(* The transport of the server (mcp-server.go:670-770).  cfg is the        *)
(* Transport part of the configuration: Type, HTTP.Host and HTTP.Port.     *)
(***************************************************************************)
\* fmt.Sprintf("%d", n)
RECURSIVE Decimal(_)
Decimal(n) ==
    IF n < 0 THEN "-" \o Decimal(0 - n)
    ELSE IF n < 10
    THEN <<"0", "1", "2", "3", "4", "5", "6", "7", "8", "9">>[n + 1]
    ELSE Decimal(n \div 10) \o Decimal(n % 10)

\* getTransportType (lines 743-748)
getTransportTypeMutant(cfg) == cfg.Type
getTransportType(cfg) == IF cfg.Type = "" THEN "stdio" ELSE cfg.Type

\* getTransportDetails (lines 751-770)
getTransportDetails(cfg) ==
    LET transportType == getTransportType(cfg)
        host == IF cfg.Host = "" THEN "localhost" ELSE cfg.Host
        port == IF cfg.Port = 0 THEN 8080 ELSE cfg.Port
    IN  IF transportType = "stdio" THEN "stdio transport"
        ELSE IF transportType = "http"
        THEN "http transport on " \o host \o ":" \o Decimal(port)
        ELSE "unknown transport"

\* startMCPServer (lines 671-684): the transport that runs, or the error
startMCPServer(cfg) ==
    LET transportType == getTransportType(cfg)
    IN  IF transportType = "stdio" THEN [runs |-> "stdio", err |-> ""]
        ELSE IF transportType = "http" THEN [runs |-> "http", err |-> ""]
        ELSE [runs |-> "none",
              err |-> "unsupported transport type: " \o transportType
                      \o " (supported: stdio, http)"]

(***************************************************************************)
(* Filtered search: the query_fits_archive handler (mcp-server.go:203-241) *)
(* and Database.QueryFiles (database.go:261-350).  Texts are sequences of  *)
(* characters; a UTC time is the rank of its RFC 3339 text in the order of *)
(* the texts; ok = FALSE is an argument that was not given or a column     *)
(* that is NULL.                                                           *)
(***************************************************************************)
\* limit and offset as the handler passes them on (lines 205-218)
queryLimits(args) ==
    [limit |-> IF args.limit.ok
               THEN (IF args.limit.v > 1000 THEN 1000 ELSE args.limit.v)
               ELSE 100,
     offset |-> IF args.offset.ok THEN args.offset.v ELSE 0]

\* LIMIT ? OFFSET ? on n rows (line 319): a negative LIMIT is no limit, a
\* negative OFFSET is none
CutCount(n, limit, offset) ==
    LET rest == IF offset <= 0 THEN n ELSE IF offset >= n THEN 0 ELSE n - offset
    IN  IF limit < 0 \/ limit >= rest THEN rest ELSE limit

\* text LIKE pattern: % stands for any text, _ for any character, letters
\* match in either case
RECURSIVE Like(_, _)
Like(text, pattern) ==
    IF pattern = <<>> THEN text = <<>>
    ELSE IF Head(pattern) = "%"
    THEN Like(text, Tail(pattern)) \/ (text # <<>> /\ Like(Tail(text), pattern))
    ELSE /\ text # <<>>
         /\ Head(pattern) = "_" \/ ToUpper(<<Head(pattern)>>) = ToUpper(<<Head(text)>>)
         /\ Like(Tail(text), Tail(pattern))

\* the WHERE clause built at lines 274-317
Selected(row, filters) ==
    /\ \A col \in {"object", "telescope", "camera", "software"} :
          LET arg == filters[IF col = "object" THEN "target" ELSE col]
          IN  (arg.ok /\ arg.v # <<>>) => Like(row[col], <<"%">> \o arg.v \o <<"%">>)
    /\ (filters.filter.ok /\ filters.filter.v # <<>>) => row.filter = filters.filter.v
    /\ (filters.date_from.ok /\ filters.date_from.v # 0)
          => row.utc_time.ok /\ row.utc_time.v >= filters.date_from.v
    /\ (filters.date_to.ok /\ filters.date_to.v # 0)
          => row.utc_time.ok /\ row.utc_time.v <= filters.date_to.v
    /\ filters.min_exposure.ok => row.exposure >= filters.min_exposure.v
    /\ filters.max_exposure.ok => row.exposure <= filters.max_exposure.v
    /\ filters.gain_min.ok => row.gain.ok /\ row.gain.v >= filters.gain_min.v
    /\ filters.gain_max.ok => row.gain.ok /\ row.gain.v <= filters.gain_max.v

\* ORDER BY utc_time DESC: NULL comes last, rows of the same time in any order
DescByTime(seq) ==
    \A i, j \in 1..Len(seq) :
       i < j => \/ ~seq[j].utc_time.ok
                \/ seq[i].utc_time.ok /\ seq[i].utc_time.v >= seq[j].utc_time.v

\* Database.QueryFiles: the lists of rows the call may return
QueryFiles(tbl, filters, limit, offset) ==
    LET sel == {row \in tbl : Selected(row, filters)}
        n == Cardinality(sel)
        first == IF offset <= 0 THEN 1 ELSE offset + 1
    IN  {SubSeq(seq, first, first + CutCount(n, limit, offset) - 1) :
            seq \in {q \in [1..n -> sel] :
                        /\ \A i, j \in 1..n : q[i] = q[j] => i = j
                        /\ DescByTime(q)}}

(***************************************************************************)
(* The observation date (part_001:304-408).  A date is a record of year,   *)
(* month and day; the texts of DATE-OBS are sample texts and timeParse     *)
(* says which layouts of Go's time.Parse accept each of them.  Julian      *)
(* cards carry whole days.                                                 *)
(***************************************************************************)
JulianKeys == <<"MJD-OBS", "JD", "JULIAN", "JD-OBS">>
DateKeys == <<"DATE-OBS", "DATE_OBS", "DATEOBS">>

NoDate == [ok |-> FALSE, date |-> [year |-> 0, month |-> 0, day |-> 0]]

\* the layouts tried on DATE-OBS when there is no UTC time (lines 383-390)
formats ==
    <<"2006-01-02T15:04:05", "2006-01-02T15:04:05.000", "2006-01-02T15:04:05Z",
      "2006-01-02T15:04:05.000Z", "2006-01-02 15:04:05", "2006-01-02">>

\* time.Parse(layout, text): a layout without a fraction accepts a fraction
\* after the seconds, a layout with .000 requires one, text left over after
\* the layout is an error
timeParse(layout, text) ==
    LET layoutsOf ==
          [t \in {"2020-01-02T03:04:05Z", "2020-01-02T23:04:05-05:00",
                  "2020-01-02T03:04:05", "2020-01-02T03:04:05.123",
                  "2020-01-02T03:04:05.123Z", "2020-01-02 03:04:05",
                  "2020-01-02", "02/01/2020"} |->
             CASE t = "2020-01-02T03:04:05Z" ->
                    {"2006-01-02T15:04:05Z07:00", "2006-01-02T15:04:05Z"}
               [] t = "2020-01-02T23:04:05-05:00" -> {"2006-01-02T15:04:05Z07:00"}
               [] t = "2020-01-02T03:04:05" -> {"2006-01-02T15:04:05"}
               [] t = "2020-01-02T03:04:05.123" ->
                    {"2006-01-02T15:04:05", "2006-01-02T15:04:05.000"}
               [] t = "2020-01-02T03:04:05.123Z" ->
                    {"2006-01-02T15:04:05Z07:00", "2006-01-02T15:04:05Z",
                     "2006-01-02T15:04:05.000Z"}
               [] t = "2020-01-02 03:04:05" -> {"2006-01-02 15:04:05"}
               [] t = "2020-01-02" -> {"2006-01-02"}
               [] OTHER -> {}]
    IN  IF text \in DOMAIN layoutsOf /\ layout \in layoutsOf[text]
        THEN [ok |-> TRUE, date |-> [year |-> 2020, month |-> 1, day |-> 2]]
        ELSE NoDate

\* file.UTCTime (lines 305-311): RFC 3339 first, then the layout without zone
utcTime(dateStr) ==
    IF dateStr = "" THEN NoDate
    ELSE IF timeParse("2006-01-02T15:04:05Z07:00", dateStr).ok
    THEN timeParse("2006-01-02T15:04:05Z07:00", dateStr)
    ELSE timeParse("2006-01-02T15:04:05", dateStr)

\* the loop over the layouts (lines 392-399): the first one that parses
RECURSIVE firstParse(_, _)
firstParse(layouts, dateStr) ==
    IF layouts = <<>> THEN [ok |-> FALSE, date |-> NoDate.date, from |-> "none"]
    ELSE IF timeParse(Head(layouts), dateStr).ok
    THEN [ok |-> TRUE, date |-> timeParse(Head(layouts), dateStr).date,
          from |-> Head(layouts)]
    ELSE firstParse(Tail(layouts), dateStr)

\* the correction for the Gregorian calendar (lines 335-341);
\* (a - 1867216.25) / 36524.25 in hundredths
GregorianShiftMutant(a) == a
GregorianShift(a) ==
    IF a >= 2299161
    THEN LET alpha == (100 * a - 186721625) \div 3652425
         IN  a + 1 + alpha - alpha \div 4
    ELSE a

\* the conversion of a Modified Julian Date of whole days (lines 331-364):
\* jd = mjd + 2400000.5 and a = int(jd + 0.5); (c - 122.1) / 365.25 is
\* (20 c - 2442) / 7305, and the other quotients are scaled likewise
JulianToDate(mjd) ==
    LET a == mjd + 2400001
        c == GregorianShift(a) + 1524
        d == (20 * c - 2442) \div 7305
        e == (36525 * d) \div 100
        f == (10000 * (c - e)) \div 306001
        day == c - e - (306001 * f) \div 10000
        month == IF f <= 13 THEN f - 1 ELSE f - 13
        year == IF month > 2 THEN d - 4716 ELSE d - 4715
    IN  [year |-> year, month |-> month, day |-> day]

\* priority of the three sources (lines 324, 369, 380)
chooseDateMutant(julian, utc, direct) ==
    IF utc.ok THEN [ok |-> TRUE, date |-> utc.date, from |-> "utc_time"]
    ELSE IF julian.ok
    THEN [ok |-> TRUE, date |-> JulianToDate(julian.v), from |-> "julian_date"]
    ELSE direct
chooseDate(julian, utc, direct) ==
    IF julian.ok
    THEN [ok |-> TRUE, date |-> JulianToDate(julian.v), from |-> "julian_date"]
    ELSE IF utc.ok THEN [ok |-> TRUE, date |-> utc.date, from |-> "utc_time"]
    ELSE direct

\* file.ObservationDate as extractMetadata sets it, and the source it was
\* taken from (the debug log names it)
observationDate(header) ==
    LET dateStr == getStringHeader(header, DateKeys)
    IN  chooseDate(getFloatHeader(header, JulianKeys), utcTime(dateStr),
                   firstParse(formats, dateStr))

(***************************************************************************)
(* GetRelativePath and expandDirectories applied to inputs of their own.   *)
(***************************************************************************)
\* the sequences over S of length at most n
SeqsUpTo(S, n) == UNION {[1..k -> S] : k \in 0..n}

\* Database.baseDirs is a list of at most MaxBaseDirs directories; the
\* absolute paths are files under A, under B, under A/s, under neither, and
\* under A or B with a name or a directory name that begins with two dots
RelInputs ==
    {[fn |-> "GetRelativePath", baseDirs |-> b, absPath |-> a] :
        b \in SeqsUpTo({DirA, DirB, DirAS}, MaxBaseDirs),
        a \in {FileAX, FileAZ, FileASY, FileBX, <<"C", "x.fits">>,
               <<"A", "..x.fits">>, <<"B", "..d", "x.fits">>}}

\* a configured pattern is given by what filepath.Glob returns for it; the
\* patterns are the literal paths A and B and a wildcard that matches both
ExpandInputs ==
    {[fn |-> "expandDirectories", patterns |-> ps, st |-> st] :
        ps \in SeqsUpTo({<<DirA>>, <<DirB>>, <<DirA, DirB>>}, MaxPatterns),
        st \in [TopDirs -> {"ok", "missing"}]}

\* Database.GetRelativePath is called
ApplyGetRelativePath ==
    /\ UNCHANGED beyondPure
    /\ p_arg.fn = "GetRelativePath"
    /\ p_ret = NoRet
    /\ p_ret' = [fn |-> p_arg.fn, rel |-> RelativeTo(p_arg.absPath, p_arg.baseDirs)]
    /\ UNCHANGED p_arg

\* expandDirectories is called
ApplyExpandDirectories ==
    /\ UNCHANGED beyondPure
    /\ p_arg.fn = "expandDirectories"
    /\ p_ret = NoRet
    /\ p_ret' = [fn |-> p_arg.fn, dirs |-> expandDirectories(p_arg.patterns, p_arg.st)]
    /\ UNCHANGED p_arg

\* rows of fits_files the searches run on (the columns a filter can test)
ArchiveRows ==
    {[object |-> <<"M", "3", "1">>, filter |-> <<"H", "a">>, telescope |-> <<"R", "C">>,
      camera |-> <<"A", "S">>, software |-> <<"N", "I">>, exposure |-> 30,
      gain |-> [ok |-> TRUE, v |-> 100], utc_time |-> [ok |-> TRUE, v |-> 3]],
     [object |-> <<"M", "4", "2">>, filter |-> <<"H", "a">>, telescope |-> <<"R", "C">>,
      camera |-> <<"A", "S">>, software |-> <<"N", "I">>, exposure |-> 60,
      gain |-> [ok |-> FALSE, v |-> 0], utc_time |-> [ok |-> TRUE, v |-> 2]],
     [object |-> <<"M", "1">>, filter |-> <<"O", "3">>, telescope |-> <<"R", "C">>,
      camera |-> <<"A", "S">>, software |-> <<"N", "I">>, exposure |-> 120,
      gain |-> [ok |-> TRUE, v |-> 200], utc_time |-> [ok |-> TRUE, v |-> 2]],
     [object |-> <<"m", "3", "1">>, filter |-> <<"L">>, telescope |-> <<"F", "S">>,
      camera |-> <<"Q", "H">>, software |-> <<"S", "G">>, exposure |-> 30,
      gain |-> [ok |-> TRUE, v |-> 100], utc_time |-> [ok |-> FALSE, v |-> 0]]}

\* no filter given
NoFilters ==
    [k \in {"target", "telescope", "camera", "software", "filter", "date_from",
            "date_to", "min_exposure", "max_exposure", "gain_min", "gain_max"} |->
        [ok |-> FALSE,
         v |-> IF k \in {"target", "telescope", "camera", "software", "filter"}
               THEN <<>> ELSE 0]]

\* calls of QueryFiles: no filter, one filter or two, a limit and an offset
QueryInputs ==
    LET choices == {
        <<"target", <<"M">>>>, <<"target", <<"m", "3", "1">>>>,
        <<"target", <<"M", "_", "1">>>>, <<"target", <<"%">>>>,
        <<"target", <<>>>>, <<"target", <<"X">>>>, <<"telescope", <<"R">>>>,
        <<"telescope", <<"f", "s">>>>, <<"camera", <<"Q">>>>,
        <<"software", <<"N">>>>, <<"filter", <<"H", "a">>>>,
        <<"filter", <<"h", "a">>>>, <<"filter", <<>>>>, <<"date_from", 0>>,
        <<"date_from", 2>>, <<"date_from", 3>>, <<"date_to", 2>>,
        <<"date_to", 1>>, <<"min_exposure", 30>>, <<"min_exposure", 60>>,
        <<"max_exposure", 60>>, <<"max_exposure", 0>>, <<"gain_min", 100>>,
        <<"gain_min", 200>>, <<"gain_max", 100>>}
        given(c) == [ok |-> TRUE, v |-> c[2]]
    IN  {[fn |-> "QueryFiles", filters |-> f, limit |-> l, offset |-> o] :
            f \in {NoFilters} \cup
                  {[NoFilters EXCEPT ![c[1]] = given(c), ![d[1]] = given(d)] :
                      c \in choices, d \in choices},
            l \in {0, 1, 2, 100}, o \in {0, 1, 5}}

\* calls of the query_fits_archive tool: the number of rows the filters
\* select, and the limit and offset arguments (ok = FALSE: not given)
ToolInputs ==
    LET opt(S) == {[ok |-> FALSE, v |-> 0]} \cup {[ok |-> TRUE, v |-> x] : x \in S}
    IN  {[fn |-> "query_fits_archive", matching |-> n,
          args |-> [limit |-> l, offset |-> o]] :
            n \in {0, 1, 100, 101, 1000, 1001, 1500},
            l \in opt({-1, 0, 1, 100, 1000, 1001, 2000}),
            o \in opt({-1, 0, 1, 1000, 2000})}

\* the query_fits_archive handler runs: the number of rows it returns
ApplyQueryTool ==
    /\ UNCHANGED beyondPure
    /\ p_arg.fn = "query_fits_archive"
    /\ p_ret = NoRet
    /\ LET lim == queryLimits(p_arg.args)
       IN  p_ret' = [fn |-> p_arg.fn,
                     count |-> CutCount(p_arg.matching, lim.limit, lim.offset)]
    /\ UNCHANGED p_arg

\* the handlers of query_fits_archive: the one runMCPServer registers
\* (mcp-server.go:203-241) and RegisterQueryFitsArchive of package tools
\* (part_003:63-172), whose Database interface declares the result of
\* QueryFiles as interface{}
QueryHandlers == {"runMCPServer", "RegisterQueryFitsArchive"}

\* the dynamic type of the value QueryFiles hands to the handler:
\* Database.QueryFiles (database.go:262) returns []*FITSFile; behind the
\* interface of package tools the value may also hold a []interface{}
DynamicTypes(handler) ==
    IF handler = "runMCPServer" THEN {"[]*FITSFile"}
    ELSE {"[]*FITSFile", "[]interface {}"}

\* the count field: len(files) at mcp-server.go:226; in package tools the
\* length when files.([]interface{}) succeeds and 0 otherwise
\* (part_003:147-156)
responseCount(handler, dynType, found) ==
    IF handler = "runMCPServer" THEN Len(found)
    ELSE IF dynType = "[]interface {}" THEN Len(found)
    ELSE 0

\* the response map (mcp-server.go:224-229, part_003:158-163)
queryResponse(handler, dynType, found, lim) ==
    [files |-> found, count |-> responseCount(handler, dynType, found),
     limit |-> lim.limit, offset |-> lim.offset]

\* calls of the tool that end in a response: the handler, the dynamic type
\* of the query result, and the limit and offset arguments
ResponseInputs ==
    LET opt(S) == {[ok |-> FALSE, v |-> 0]} \cup {[ok |-> TRUE, v |-> x] : x \in S}
    IN  {[fn |-> "query response", handler |-> ht[1], dynType |-> ht[2],
          args |-> [limit |-> l, offset |-> o]] :
            ht \in {x \in QueryHandlers \X {"[]*FITSFile", "[]interface {}"} :
                       x[2] \in DynamicTypes(x[1])},
            l \in opt({0, 1, 2, 1001}), o \in opt({0, 1, 5})}

\* a query_fits_archive handler runs on the rows of the archive and answers
ApplyQueryResponse ==
    /\ UNCHANGED beyondPure
    /\ p_arg.fn = "query response"
    /\ p_ret = NoRet
    /\ LET lim == queryLimits(p_arg.args)
       IN  \E found \in QueryFiles(ArchiveRows, NoFilters, lim.limit, lim.offset) :
              p_ret' = [fn |-> p_arg.fn,
                        response |-> queryResponse(p_arg.handler, p_arg.dynType, found, lim)]
    /\ UNCHANGED p_arg

\* Database.QueryFiles is called
ApplyQueryFiles ==
    /\ UNCHANGED beyondPure
    /\ p_arg.fn = "QueryFiles"
    /\ p_ret = NoRet
    /\ \E found \in QueryFiles(ArchiveRows, p_arg.filters, p_arg.limit, p_arg.offset) :
          p_ret' = [fn |-> p_arg.fn, files |-> found]
    /\ UNCHANGED p_arg

\* headers for the observation date: one Modified Julian Date of a window
\* of MaxDays days around 1900, 2000, 2020 and 2100, or a choice of Julian
\* and DATE-OBS cards
DateInputs ==
    LET none == [k \in Range(JulianKeys) \cup Range(DateKeys) |-> NoCard]
    IN  {[fn |-> "observationDate", header |-> h] :
            h \in {[none EXCEPT !["MJD-OBS"] = NumCard(first + i)] :
                      first \in {15000, 51500, 58800, 88000}, i \in 0..MaxDays}
                  \cup
                  {[none EXCEPT !["MJD-OBS"] = mjd, !["JD"] = jd,
                                !["DATE-OBS"] = obs, !["DATE_OBS"] = alt] :
                      mjd \in {NoCard, NumCard(58849), StrCard("58849")},
                      jd \in {NoCard, NumCard(58851)},
                      obs \in {NoCard, StrCard(" ")} \cup
                              {StrCard(t) : t \in
                                 {"2020-01-02T03:04:05Z", "2020-01-02T23:04:05-05:00",
                                  "2020-01-02T03:04:05", "2020-01-02T03:04:05.123",
                                  "2020-01-02T03:04:05.123Z", "2020-01-02 03:04:05",
                                  "2020-01-02", "02/01/2020"}},
                      alt \in {NoCard, StrCard("2020-01-02")}}}

\* extractMetadata derives the observation date of a header
ApplyObservationDate ==
    /\ UNCHANGED beyondPure
    /\ p_arg.fn = "observationDate"
    /\ p_ret = NoRet
    /\ LET res == observationDate(p_arg.header)
       IN  p_ret' = [fn |-> p_arg.fn, ok |-> res.ok, date |-> res.date,
                     from |-> res.from]
    /\ UNCHANGED p_arg

\* headers for the alias lists: every choice of cards under the three OBJECT
\* keywords, and under the three exposure keywords
AliasInputs ==
    LET none == [k \in HeaderKeys |-> NoCard]
        texts == {NoCard, StrCard(""), StrCard(" "), StrCard("M31"), StrCard("M42"),
                  NumCard(7)}
        numbers == {NoCard, StrCard("30"), NumCard(30), NumCard(60)}
    IN  {[fn |-> "getHeader", header |-> h] :
            h \in {[none EXCEPT !["OBJECT"] = a, !["TARGET"] = b, !["OBJNAME"] = c] :
                      a \in texts, b \in texts, c \in texts}
                  \cup
                  {[none EXCEPT !["EXPTIME"] = a, !["EXPOSURE"] = b, !["EXPOS"] = c] :
                      a \in numbers, b \in numbers, c \in numbers}}

\* extractMetadata reads the target and the exposure of a header (lines
\* 287 and 300)
ApplyGetHeader ==
    /\ UNCHANGED beyondPure
    /\ p_arg.fn = "getHeader"
    /\ p_ret = NoRet
    /\ p_ret' = [fn |-> p_arg.fn,
                 object |-> getStringHeader(p_arg.header, ObjectKeys),
                 exposure |-> getFloatHeader(p_arg.header, ExposureKeys)]
    /\ UNCHANGED p_arg

\* configurations of the transport
TransportInputs ==
    {[fn |-> "transport", cfg |-> [Type |-> t, Host |-> h, Port |-> n]] :
        t \in {"", "stdio", "http", "HTTP", "sse"},
        h \in {"", "localhost", "0.0.0.0"},
        n \in {0, 80, 8080, 9000}}

\* runMCPServer logs the transport and starts the server (lines 127-134)
ApplyTransport ==
    /\ UNCHANGED beyondPure
    /\ p_arg.fn = "transport"
    /\ p_ret = NoRet
    /\ p_ret' = [fn |-> p_arg.fn,
                 transport |-> getTransportType(p_arg.cfg),
                 details |-> getTransportDetails(p_arg.cfg),
                 start |-> startMCPServer(p_arg.cfg)]
    /\ UNCHANGED p_arg

PureInit ==
    /\ p_arg \in RelInputs \cup ExpandInputs \cup ToolInputs \cup QueryInputs
                \cup DateInputs \cup AliasInputs \cup TransportInputs
                \cup ResponseInputs
    /\ p_ret = NoRet
    /\ ServerIdle
    /\ ScanIdle
    /\ StoreIdle
    /\ WalkIdle
    /\ ToolsIdle

PureNext ==
    \/ ApplyGetRelativePath
    \/ ApplyExpandDirectories
    \/ ApplyQueryTool
    \/ ApplyQueryFiles
    \/ ApplyObservationDate
    \/ ApplyGetHeader
    \/ ApplyTransport
    \/ ApplyQueryResponse

SpecPure == PureInit /\ [][PureNext]_vars

SpecServer == ServerInit /\ [][ServerNext]_vars

\* the server under fair scheduling: a handler that holds scanMutex goes on,
\* a started goroutine is run, Scan returns, and a goroutine waiting for
\* scanMutex gets it (sync.Mutex hands the lock to a waiter that starves)
SpecServerFair ==
    /\ SpecServer
    /\ \A h \in Handlers :
          /\ WF_vars(RescanReject(h))
          /\ WF_vars(RescanAccept(h))
          /\ WF_vars(RescanSpawn(h))
    /\ \A g \in Goroutines :
          /\ WF_vars(GoScanBegin(g))
          /\ WF_vars(GoScanReturn(g))
          /\ SF_vars(DeferLock(g))
          /\ WF_vars(DeferStoreUnlock(g))

SpecScan == ScanInit /\ [][ScanNext]_vars

(***************************************************************************)
(* Claims about the scan state.                                            *)
(***************************************************************************)
\* C1: at most one scan pass (one scanner.Scan() call) is executing in the
\* process at any time, whatever the interleaving of the startup scan, the
\* rescan triggers and the scan completions.
C1_AtMostOneScan == Cardinality(ActiveScans) <= 1

\* C2: a rescan trigger that finds the running flag set answers
\* "already_running" in the very step that tests the flag, leaves the flag
\* and the timestamp as they are, starts no goroutine and no Scan call, and
\* never has to wait for the running scan because a thread inside Scan does
\* not hold scanMutex; every Scan call of a rescan goroutine belongs to a
\* trigger that was accepted.
C2_RejectStep ==
    /\ \A t \in ActiveScans : scanMutex # t
    /\ spawned' + Cardinality({g \in Goroutines : pc'[g] = "spawned"}) = accepted'
    /\ \A h \in Handlers :
          (pc[h] = "check" /\ scanningNow /\ pc'[h] # pc[h]) =>
             /\ resp'[h].status = "already_running"
             /\ pc'[h] = "idle"
             /\ scanMutex' = Free
             /\ scanningNow' = scanningNow
             /\ lastScanTime' = lastScanTime
             /\ spawned' = spawned
             /\ accepted' = accepted
             /\ \A g \in Goroutines : pc'[g] = pc[g]
C2_RejectedTriggerNotQueued == [][C2_RejectStep]_vars

\* two triggers have been rejected during the scan of a rescan goroutine
\* that is still running
C2_Witness ==
    /\ rejected >= 2
    /\ scanningNow
    /\ \E g \in Goroutines : pc[g] = "scanning"
    /\ \E h \in Handlers : resp[h].status = "already_running"

\* C3: every store to the running flag or to the last-completed timestamp
\* is made by a thread that holds scanMutex.
C3_StoresUnderLock ==
    [][\A t \in Threads :
          (pc'[t] # pc[t]
             /\ (scanningNow' # scanningNow \/ lastScanTime' # lastScanTime))
          => scanMutex = t]_vars

(***************************************************************************)
(* Claims about the scan pass.                                             *)
(***************************************************************************)
\* the relative path of f belongs to no other candidate file
OwnRelPath(f) ==
    /\ GetRelativePath(f) # NoPath
    /\ \A g \in FitsFiles \ {f} : GetRelativePath(g) # GetRelativePath(f)

\* the frame-type header of f names a calibration type
CalibrationFrame(f) ==
    getStringHeader(files[f].header, ImageTypeKeys) \notin {"", "LIGHT"}

\* object, telescope, filter and exposure are all present in the header of f
AllRequiredPresent(f) ==
    /\ getStringHeader(files[f].header, ObjectKeys) # ""
    /\ getStringHeader(files[f].header, TelescopeKeys) # ""
    /\ getStringHeader(files[f].header, FilterKeys) # ""
    /\ getFloatHeader(files[f].header, ExposureKeys).ok
    /\ getFloatHeader(files[f].header, ExposureKeys).v > 0

\* C4: idempotence.  When a scan without force has just returned, a scan
\* had completed before it, the file set and the modification times did not
\* change from the start of the earlier scan on, and the pass met no
\* per-file error, it reports FilesAdded = 0, FilesUpdated = 0 and
\* FilesSkipped = FilesScanned.
C4_Idempotent ==
    (s_pc = "done" /\ quietScans >= 2 /\ ~s_force /\ ~result.nil
       /\ result.Errors = <<>>)
    => /\ result.FilesAdded = 0
       /\ result.FilesUpdated = 0
       /\ result.FilesSkipped = result.FilesScanned

\* C5: when a scan without force processes a file that has a row of its own
\* in the index with another modification time than the file has now, and
\* the store does not fail, the file is counted in FilesUpdated, not in
\* FilesAdded and not in FilesSkipped, and its row holds the new
\* modification time afterwards.
C5_Step ==
    \A f \in FitsFiles :
       (/\ scanned' = scanned + 1
        /\ last'.file = f
        /\ ~last'.fault
        /\ ~s_force
        /\ OwnRelPath(f)
        /\ index[GetRelativePath(f)].present
        /\ index[GetRelativePath(f)].file_mod_time # mtime[f])
       => /\ updated' = updated + 1
          /\ added' = added
          /\ skipped' = skipped
          /\ index'[GetRelativePath(f)].file_mod_time = mtime[f]
C5_ModifiedIsUpdated == [][C5_Step]_vars

\* C6: every row of the index has a non-empty object, telescope and filter
\* and an exposure greater than 0.
C6_RowsComplete ==
    \A rp \in RelPaths :
       index[rp].present =>
          /\ index[rp].object # ""
          /\ index[rp].telescope # ""
          /\ index[rp].filter # ""
          /\ index[rp].exposure > 0

\* C7: a file whose frame-type header names a calibration type is never
\* written to the index, with or without force, and no row of the index
\* carries another frame type than the light marker.
C7_CalibrationNeverWritten ==
    /\ \A f \in FitsFiles : CalibrationFrame(f) => f \notin written
    /\ \A rp \in RelPaths : index[rp].present => index[rp].image_type = "LIGHT"

\* a forced scan has processed a dark frame that has every required field
C7_Witness ==
    /\ s_pc = "done"
    /\ s_force
    /\ \E f \in handled :
          /\ CalibrationFrame(f)
          /\ AllRequiredPresent(f)
          /\ f \notin written

\* the tags of the per-file problems of processFile
ProblemTags == {"stat", "relpath", "lookup", "extract", "missing", "save"}

\* C8: no per-file problem aborts a scan: when Scan has returned for a
\* directory list that is not empty, it returned a ScanResult, every queued
\* file was processed, and the workers of every walkDirectory call had
\* emptied their channel.
C8_PerFileProblemsDoNotAbort ==
    (s_pc = "done" /\ Len(s_baseDirs) > 0)
    => /\ ~result.nil
       /\ ~result.err
       /\ result.FilesScanned = queued
       /\ handled = queuedSet

\* a scan has returned after a per-file problem on one file and a row
\* written for a file that was processed after it
C8_Witness ==
    /\ s_pc = "done"
    /\ Len(result.Errors) >= 1
    /\ \E e \in Range(result.Errors) :
          e.kind \notin {"directory does not exist", "failed to read directory"}
    /\ last.tag = "added"
    /\ result.FilesScanned >= 2

\* the error entries of the pass for directory dir
DirErrors(dir) ==
    {i \in 1..Len(errors) :
        /\ errors[i].path = dir
        /\ errors[i].kind \in {"directory does not exist", "failed to read directory"}}

\* C9: when Scan has returned for a directory list that is not empty, its
\* loop has gone through every base directory in the order of the list; a
\* directory that was missing or unreadable has exactly one error entry,
\* every other directory was walked and its candidate files were processed;
\* the result is a ScanResult.
C9_MissingDirectoryIsSoft ==
    (s_pc = "done" /\ Len(s_baseDirs) > 0)
    => /\ ~result.nil
       /\ Len(visited) = Len(s_baseDirs)
       /\ \A i \in 1..Len(visited) :
             /\ visited[i].dir = s_baseDirs[i]
             /\ IF visited[i].status = "walked"
                THEN /\ DirErrors(visited[i].dir) = {}
                     /\ \A f \in FitsFiles :
                           (Len(f) = 2 /\ f[1] = visited[i].dir[1]) => f \in handled
                ELSE Cardinality(DirErrors(visited[i].dir)) = 1

\* a scan has returned whose first directory was missing and whose second
\* directory was walked
C9_Witness ==
    /\ s_pc = "done"
    /\ Len(visited) = 2
    /\ visited[1].status = "missing"
    /\ visited[2].status = "walked"
    /\ result.FilesScanned >= 1

\* C10 as stated: Scan never returns an error in place of a result.
C10_AlwaysAResult == s_pc = "done" => (~result.nil /\ ~result.err)

\* C10 as amended: Scan returns an error in place of a result exactly when
\* its directory list is empty; for every other input it returns a
\* ScanResult whose error list has one entry for every problem of the pass.
C10_ResultUnlessNoDirectories ==
    s_pc = "done" =>
       IF Len(s_baseDirs) = 0
       THEN result.nil /\ result.err
       ELSE /\ ~result.nil
            /\ ~result.err
            /\ result.Errors = errors
            /\ Len(result.Errors) = problems

\* a scan over two directories has returned a result that lists problems
C10_Witness ==
    /\ s_pc = "done"
    /\ Len(s_baseDirs) = 2
    /\ ~result.nil
    /\ Len(result.Errors) >= 2

\* the worker goroutines of the pass that have not returned: the workers of
\* every walkDirectory call on the stack (part_001:119-128)
RECURSIVE WorkersAlive(_)
WorkersAlive(fs) ==
    IF fs = <<>> THEN 0 ELSE Head(fs).workers + WorkersAlive(Tail(fs))

\* C11: during a scan the number of file-processing workers alive at the
\* same time never exceeds the pool size.
C11_WorkersWithinPool == WorkersAlive(frames) <= numWorkers

\* the files of the pass whose processFile call ended with one of the tags
Took(tags) == Cardinality({f \in FitsFiles : outcomes[f] \in tags})

\* C12: for every interleaving of the workers the totals of the ScanResult
\* are exact: FilesScanned is the number of files queued, FilesAdded,
\* FilesUpdated and FilesSkipped are the numbers of files that took that
\* outcome, and the error list has one entry per problem of the pass.
C12_TotalsExact ==
    (s_pc = "done" /\ ~result.nil)
    => /\ result.FilesScanned = queued
       /\ result.FilesScanned = Cardinality(handled)
       /\ result.FilesAdded = Took({"added"})
       /\ result.FilesUpdated = Took({"updated"})
       /\ result.FilesSkipped = Took({"unchanged", "notlight", "missing"})
       /\ Len(result.Errors) = problems
       /\ Len(result.Errors) =
             Took({"stat", "relpath", "lookup", "extract", "missing", "save"})
                + Cardinality({i \in 1..Len(visited) : visited[i].status # "walked"})

\* a recursive pass over two directories has returned in which files were
\* added, skipped and reported in the error list
C12_Witness ==
    /\ s_pc = "done"
    /\ recursive
    /\ Len(s_baseDirs) = 2
    /\ result.FilesScanned = 4
    /\ result.FilesAdded >= 1
    /\ result.FilesSkipped >= 1
    /\ Len(result.Errors) >= 1

\* C13: when a scan without force processes a file whose row in the index
\* stores the modification time the file has now, the index is left as it
\* is, hash and row-modification timestamp of the row included, and no
\* write is issued.
C13_Step ==
    \A f \in FitsFiles :
       (/\ scanned' = scanned + 1
        /\ last'.file = f
        /\ ~s_force
        /\ GetRelativePath(f) # NoPath
        /\ files[f].stat
        /\ index[GetRelativePath(f)].present
        /\ index[GetRelativePath(f)].file_mod_time = mtime[f])
       => /\ index' = index
          /\ written' = written
          /\ added' = added
          /\ updated' = updated
          /\ last'.tag \in {"unchanged", "lookup"}
C13_UnchangedFileLeavesIndex == [][C13_Step]_vars

\* a later pass has skipped a file as unchanged whose row was written at an
\* earlier time of the store's clock
C13_Witness ==
    /\ last.tag = "unchanged"
    /\ ~s_force
    /\ index[GetRelativePath(last.file)].present
    /\ index[GetRelativePath(last.file)].hash = CalculateFileHash(last.file)
    /\ index[GetRelativePath(last.file)].row_mod_time < now

\* C18: when a scan has returned that walked a directory which came into
\* being after startup, the valid light frames of that directory are in the
\* index, like those of the directories that existed at startup.
C18_NewDirectoryPickedUp ==
    \A i \in 1..Len(visited) :
       (/\ s_pc = "done"
        /\ visited[i].status = "walked"
        /\ visited[i].dir \notin Range(dbBaseDirs))
       => \A f \in FitsFiles :
             (/\ IsPrefix(visited[i].dir, f)
              /\ f \in handled
              /\ files[f].stat /\ files[f].fits
              /\ ~CalibrationFrame(f)
              /\ AllRequiredPresent(f))
             => /\ outcomes[f] \in {"added", "updated", "unchanged"}
                /\ \E rp \in RelPaths :
                      index[rp].present /\ index[rp].hash = CalculateFileHash(f)

(***************************************************************************)
(* Claims about the path mapping and the directory resolver.               *)
(***************************************************************************)
\* the base directories of the list that contain path a
Owners(b, a) == {i \in 1..Len(b) : IsPrefix(b[i], a) /\ Len(b[i]) < Len(a)}

\* C16: for two base directories neither of which contains the other,
\* GetRelativePath maps a file under one of them to the path relative to
\* that directory, and returns an error for a file under neither.
C16_OwningDirectory ==
    (/\ p_ret # NoRet
     /\ p_arg.fn = "GetRelativePath"
     /\ Len(p_arg.baseDirs) = 2
     /\ ~IsPrefix(p_arg.baseDirs[1], p_arg.baseDirs[2])
     /\ ~IsPrefix(p_arg.baseDirs[2], p_arg.baseDirs[1]))
    => IF Owners(p_arg.baseDirs, p_arg.absPath) = {}
       THEN p_ret.rel = NoPath
       ELSE \E i \in Owners(p_arg.baseDirs, p_arg.absPath) :
               p_ret.rel = SubSeq(p_arg.absPath, Len(p_arg.baseDirs[i]) + 1,
                                  Len(p_arg.absPath))

\* C17: the list the resolver returns contains only existing directories
\* and no directory twice, whatever the patterns are.
C17_ResolvedDirectories ==
    (p_ret # NoRet /\ p_arg.fn = "expandDirectories")
    => /\ \A i \in 1..Len(p_ret.dirs) : p_arg.st[p_ret.dirs[i]] # "missing"
       /\ \A i, j \in 1..Len(p_ret.dirs) : p_ret.dirs[i] = p_ret.dirs[j] => i = j

(***************************************************************************)
(* Claims about the store and its callers.                                 *)
(***************************************************************************)
\* the columns a row takes from a record
CarriesFields(row, file) ==
    /\ row.relative_path = file.RelativePath
    /\ row.hash = file.Hash
    /\ row.file_mod_time = file.FileModTime
    /\ row.object = file.Object
    /\ row.filter = file.Filter

\* a step puts into the table only rows that carry all fields of the record
\* of one worker whose statement is executing, with the time of the clock
C14_Step ==
    \A row \in table' \ table :
       \E w \in Writers :
          /\ dbpc[w] = "writing"
          /\ CarriesFields(row, dbarg[w])
          /\ row.row_mod_time = dbNow

\* C14: the index holds at most one row per relative path at any time, and
\* every row an upsert writes, also while another worker upserts the same
\* path, carries all fields of that one upsert and the current timestamp.
C14_OneRowPerPath ==
    /\ [](\A rp \in StorePaths : Cardinality(RowsOf(table, rp)) <= 1)
    /\ [][C14_Step]_vars

\* two workers upsert the same path with different records: the statement of
\* one has written the row at the second tick of the clock and the other is
\* waiting for the lock
C14_Witness ==
    \E w, v \in Writers :
       /\ dbpc[w] = "written" /\ dbret[w].kind = "ok"
       /\ dbpc[v] = "lock"
       /\ dbarg[w].RelativePath = dbarg[v].RelativePath
       /\ dbarg[w].Hash # dbarg[v].Hash
       /\ nextId = 2
       /\ \E row \in table :
             /\ CarriesFields(row, dbarg[w])
             /\ row.id = 1
             /\ row.row_mod_time = 2

\* C15: at most one write against the store is in progress at any time,
\* every caller whose write is in progress holds the write lock, and the
\* callers that read never hold it.
C15_OneWriteInsideLock ==
    /\ Cardinality(Writing) <= 1
    /\ \A c \in Callers : dbpc[c] = "writing" => writeMu = c
    /\ writeMu \notin Readers \cup Queriers

\* a letter of the text is the upper case letter, or its lower case form
SameLetter(ch, up) ==
    ch = up \/ \E k \in 1..Len(UpperCase) : UpperCase[k] = up /\ LowerCase[k] = ch

\* the word stands in the text at position i, in upper or lower case
OccursAt(text, word, i) ==
    /\ i + Len(word) - 1 <= Len(text)
    /\ \A j \in 1..Len(word) : SameLetter(text[i + j - 1], word[j])

\* after leading white space the text begins with SELECT
BeginsWithSelect(text) ==
    \E i \in 1..Len(text) :
       /\ \A j \in 1..(i - 1) : text[j] \in WhiteSpace
       /\ OccursAt(text, KwSelect, i)

\* the denylisted keywords that stand somewhere in the text
Denylisted(text) ==
    {forbidden[k] : k \in {n \in 1..Len(forbidden) :
                              \E i \in 1..Len(text) : OccursAt(text, forbidden[n], i)}}

\* the texts the gate has to accept
ShouldAccept ==
    [text \in QueryTexts |-> BeginsWithSelect(text) /\ Denylisted(text) = {}]

\* the query of the specification returns the rows of the table
C19_Step ==
    \A q \in Queriers :
       (dbpc[q] = "querying" /\ dbpc'[q] = "idle" /\ dbarg[q] = QSelectAll)
       => dbret'[q] = [kind |-> "rows", rows |-> table]

\* C19: a text is rejected at validation exactly when, white space and case
\* aside, it does not begin with SELECT or contains a denylisted keyword at
\* some position; "SELECT * FROM fits_files" is accepted and returns the
\* rows, "DELETE FROM fits_files" is rejected.
C19_QueryGate ==
    /\ [](\A q \in Queriers :
             dbret[q].kind # "none"
             => /\ dbret[q].kind = "validation error" <=> ~ShouldAccept[dbarg[q]]
                /\ dbarg[q] = QSelectAll => dbret[q].kind \in {"pending", "rows"}
                /\ dbarg[q] = QDeleteAll => dbret[q].kind = "validation error")
    /\ [][C19_Step]_vars

\* a query in lower case with white space around it has returned the rows of
\* a table that is not empty
C19_Witness ==
    \E q \in Queriers :
       /\ dbpc[q] = "idle"
       /\ dbret[q].kind = "rows"
       /\ dbret[q].rows # {}
       /\ dbarg[q] = QSelectPadded

\* the step in which caller c begins a call
CallOf(c) ==
    /\ dbOps' = dbOps + 1
    /\ \A o \in Callers \ {c} : dbpc'[o] = dbpc[o] /\ dbret'[o] = dbret[o]

\* a call with a text the gate has to reject returns at once with the
\* validation error and without rows, and changes neither the store nor the
\* list of texts passed to it
C20_Step ==
    \A q \in Queriers :
       (CallOf(q) /\ ~ShouldAccept[dbarg'[q]])
       => /\ sent' = sent
          /\ table' = table
          /\ dbpc'[q] = "idle"
          /\ dbret'[q].kind = "validation error"
          /\ dbret'[q].rows = {}

\* C20: a text that is rejected at validation is never passed to the store,
\* the store is unchanged by the call, and the caller gets a validation error
\* and no rows.
C20_RejectedBeforeStore ==
    /\ [](\A i \in 1..Len(sent) : ShouldAccept[sent[i]])
    /\ [][C20_Step]_vars

\* the DELETE of the specification was rejected while the table held rows,
\* and no text has been passed to the store
C20_Witness ==
    \E q \in Queriers :
       /\ dbpc[q] = "idle"
       /\ dbret[q].kind = "validation error"
       /\ dbret[q].err = "only SELECT queries are allowed"
       /\ dbarg[q] = QDeleteAll
       /\ table # {}
       /\ sent = <<>>

\* the execution of an accepted text leaves the rows and the schema as they
\* were
C21_Step ==
    \A q \in Queriers :
       (dbpc[q] = "querying" /\ dbpc'[q] = "idle")
       => table' = table /\ schema' = schema

\* C21: for every text ExecuteReadOnlyQuery accepts and executes, the rows
\* and the schema of the index are the same after the call as before it.
C21_QueryPathReadOnly == [][C21_Step]_vars

(***************************************************************************)
(* Claims about the filtered search.                                       *)
(***************************************************************************)
\* C22: whatever limit the caller gives (above 1000, zero, negative or none),
\* the query_fits_archive tool returns at most 1000 rows.
C22_AtMostThousandRows ==
    (p_ret.fn = "query_fits_archive") => p_ret.count <= 1000
\* the row satisfies every filter that was given: the text is a part of the
\* column (in either case) for target, telescope, camera and software, the
\* filter name is equal, exposure, gain and UTC time lie within the bounds
Satisfies(row, filters) ==
    LET given(k) == filters[k].ok /\ filters[k].v # NoFilters[k].v
        part(col, k) ==
            given(k) => \E i \in 1..Len(row[col]) :
                           OccursAt(row[col], ToUpper(filters[k].v), i)
    IN  /\ part("object", "target")
        /\ part("telescope", "telescope")
        /\ part("camera", "camera")
        /\ part("software", "software")
        /\ given("filter") => row.filter = filters.filter.v
        /\ given("date_from") => row.utc_time.ok /\ row.utc_time.v >= filters.date_from.v
        /\ given("date_to") => row.utc_time.ok /\ row.utc_time.v <= filters.date_to.v
        /\ filters.min_exposure.ok => row.exposure >= filters.min_exposure.v
        /\ filters.max_exposure.ok => row.exposure <= filters.max_exposure.v
        /\ filters.gain_min.ok => row.gain.ok /\ row.gain.v >= filters.gain_min.v
        /\ filters.gain_max.ok => row.gain.ok /\ row.gain.v <= filters.gain_max.v

\* row a is not older than row b (a row without a time is the oldest)
NotOlder(a, b) ==
    ~b.utc_time.ok \/ (a.utc_time.ok /\ a.utc_time.v >= b.utc_time.v)

\* C23: QueryFiles returns exactly the rows that satisfy every filter given,
\* newest first, without the first offset rows and cut to limit rows.
C23_ExactlyTheMatchingRows ==
    (p_ret.fn = "QueryFiles") =>
       LET want == {row \in ArchiveRows : Satisfies(row, p_arg.filters)}
           got == {p_ret.files[i] : i \in 1..Len(p_ret.files)}
           rest == IF p_arg.offset >= Cardinality(want) THEN 0
                   ELSE Cardinality(want) - p_arg.offset
       IN  /\ got \subseteq want
           /\ Cardinality(got) = Len(p_ret.files)
           /\ Len(p_ret.files) = IF p_arg.limit < rest THEN p_arg.limit ELSE rest
           /\ \A i, j \in 1..Len(p_ret.files) :
                 i < j => NotOlder(p_ret.files[i], p_ret.files[j])
           /\ \E before \in SUBSET (want \ got) :
                 /\ Cardinality(before) = Cardinality(want) - rest
                 /\ \A a \in before, b \in got : NotOlder(a, b)
                 /\ \A a \in got, b \in want \ (got \cup before) : NotOlder(a, b)
(***************************************************************************)
(* Claims about the observation date.                                      *)
(***************************************************************************)
\* the calendar date of a Julian day number by the reference algorithm
\* (Richards, Explanatory Supplement to the Astronomical Almanac)
ReferenceDate(J) ==
    LET f == J + 1401 + (((4 * J + 274277) \div 146097) * 3) \div 4 - 38
        e == 4 * f + 3
        h == 5 * ((e % 1461) \div 4) + 2
        month == ((h \div 153 + 2) % 12) + 1
    IN  [year |-> e \div 1461 - 4716 + (14 - month) \div 12,
         month |-> month,
         day |-> (h % 153) \div 5 + 1]

\* C24: for a Modified Julian Date of whole days the observation date is the
\* Gregorian date the reference algorithm gives for floor(JD + 0.5), JD =
\* MJD + 2400000.5; MJD 58849 is 2020-01-01.
C24_JulianDateConversion ==
    (p_ret.fn = "observationDate" /\ p_ret.from = "julian_date") =>
       LET mjd == getFloatHeader(p_arg.header, JulianKeys).v
       IN  /\ p_ret.ok
           /\ p_ret.date = ReferenceDate(mjd + 2400001)
           /\ mjd = 58849 => p_ret.date = [year |-> 2020, month |-> 1, day |-> 1]

\* the conversion has run on the leap day of 2020
C24_Witness ==
    /\ p_ret.fn = "observationDate"
    /\ p_ret.from = "julian_date"
    /\ p_arg.header["MJD-OBS"] = NumCard(58908)
    /\ p_ret.date = [year |-> 2020, month |-> 2, day |-> 29]

\* the observation date comes from the Julian date if hasJulian, otherwise
\* from the UTC time if there is one, otherwise from the first layout that
\* parses the DATE-OBS text, and there is none only if all three fail
DatePriority(hasJulian) ==
    (p_ret.fn = "observationDate") =>
       LET raw == getStringHeader(p_arg.header, DateKeys)
           utc == IF timeParse("2006-01-02T15:04:05Z07:00", raw).ok
                  THEN timeParse("2006-01-02T15:04:05Z07:00", raw)
                  ELSE timeParse("2006-01-02T15:04:05", raw)
           parsing == {i \in 1..Len(formats) : timeParse(formats[i], raw).ok}
       IN  IF hasJulian
           THEN p_ret.ok /\ p_ret.from = "julian_date"
           ELSE IF utc.ok
           THEN p_ret.ok /\ p_ret.from = "utc_time" /\ p_ret.date = utc.date
           ELSE IF parsing # {}
           THEN /\ p_ret.ok
                /\ \E i \in parsing :
                      /\ \A j \in parsing : i <= j
                      /\ p_ret.from = formats[i]
                      /\ p_ret.date = timeParse(formats[i], raw).date
           ELSE ~p_ret.ok

\* C25 as stated: the Julian date has priority whenever a Julian-date header
\* is present.
C25_PriorityWhenPresent ==
    DatePriority(p_ret.fn = "observationDate" /\
                 \E k \in Range(JulianKeys) : p_arg.header[k] # NoCard)

\* C25: the observation date is taken from the Julian date whenever a
\* Julian-date header holds a number; otherwise from the date part of the
\* parsed UTC timestamp; otherwise from the raw timestamp header tried
\* against the ordered list of formats (first format that parses wins); it
\* is null only when none of the three yields a date.
C25_DatePriority ==
    DatePriority(p_ret.fn = "observationDate" /\
                 \E k \in Range(JulianKeys) : p_arg.header[k].t = "float64")

\* a header with a Julian date and a UTC time of another day
C25_Witness ==
    /\ p_ret.fn = "observationDate"
    /\ p_arg.header["JD"] = NumCard(58851)
    /\ p_arg.header["MJD-OBS"] = NoCard
    /\ p_arg.header["DATE-OBS"] = StrCard("2020-01-02T03:04:05Z")
    /\ p_ret.from = "julian_date"
    /\ p_ret.date = [year |-> 2020, month |-> 1, day |-> 3]
(***************************************************************************)
(* Claims about the header aliases.                                        *)
(***************************************************************************)
\* the first keyword of the list whose card is a hit supplies the text, a
\* later one only when no earlier card is a hit; without a hit there is none
FirstHitText(header, keys, text, Hit(_)) ==
    LET hits == {i \in 1..Len(keys) : Hit(header[keys[i]])}
    IN  IF hits = {} THEN text = ""
        ELSE \E i \in hits :
                /\ \A j \in hits : i <= j
                /\ header[keys[i]].t = "string"
                /\ text = (IF header[keys[i]].s = " " THEN "" ELSE header[keys[i]].s)

\* the same for a number
FirstHitNumber(header, keys, number, Hit(_)) ==
    LET hits == {i \in 1..Len(keys) : Hit(header[keys[i]])}
    IN  IF hits = {} THEN ~number.ok
        ELSE \E i \in hits :
                /\ \A j \in hits : i <= j
                /\ header[keys[i]].t = "float64"
                /\ number.ok /\ number.v = header[keys[i]].n

\* C26 as stated: the first alias present in the header supplies the value.
C26_FirstPresentAlias ==
    (p_ret.fn = "getHeader") =>
       LET Present(card) == card # NoCard
       IN  /\ FirstHitText(p_arg.header, ObjectKeys, p_ret.object, Present)
           /\ FirstHitNumber(p_arg.header, <<"EXPTIME", "EXPOSURE", "EXPOS">>,
                             p_ret.exposure, Present)

\* C26: the aliases of a field are probed in their fixed order and the first
\* alias that holds a usable value (a non-empty string for a text field, a
\* number for a numeric field) supplies the value; a later alias is used
\* only when every earlier alias is absent or holds no usable value.  For
\* exposure the order is EXPTIME, EXPOSURE, EXPOS.
C26_FirstUsableAlias ==
    (p_ret.fn = "getHeader") =>
       LET Text(card) == card.t = "string" /\ card.s # ""
           Number(card) == card.t = "float64"
       IN  /\ FirstHitText(p_arg.header, ObjectKeys, p_ret.object, Text)
           /\ FirstHitNumber(p_arg.header, <<"EXPTIME", "EXPOSURE", "EXPOS">>,
                             p_ret.exposure, Number)

\* EXPTIME and EXPOSURE both hold a number and EXPTIME was taken
C26_Witness ==
    /\ p_ret.fn = "getHeader"
    /\ p_arg.header["EXPTIME"] = NumCard(30)
    /\ p_arg.header["EXPOSURE"] = NumCard(60)
    /\ p_ret.exposure = [ok |-> TRUE, v |-> 30]
(***************************************************************************)
(* Claims about the cycle of the scan state.                               *)
(***************************************************************************)
\* a trigger that finds the state idle is accepted and makes it running;
\* the step that ends the running state sets the last-completed time
C27_Step ==
    /\ \A h \in Handlers :
          (pc[h] = "check" /\ ~scanningNow /\ pc'[h] # pc[h])
             => scanningNow' /\ pc'[h] = "spawn"
    /\ (scanningNow /\ ~scanningNow') => lastScanTime' = clock /\ lastScanTime' # 0

\* C27: the scan state cycles idle, running, idle: a trigger that finds it
\* idle is accepted and makes it running; every scan that made it running
\* eventually makes it idle again and sets the last-completed time, whether
\* the pass succeeded or failed; a trigger after that is accepted again.
C27_ScanStateCycle ==
    /\ [][C27_Step]_vars
    /\ scanningNow ~> (~scanningNow /\ lastScanTime # 0)

\* a second trigger was accepted after the first scan had ended
C27_Witness ==
    /\ accepted = 2
    /\ spawned = 2
    /\ ~scanningNow
    /\ lastScanTime # 0
    /\ \A g \in Goroutines : pc[g] = "free"
(***************************************************************************)
(* Claims about the termination of a pass.                                 *)
(***************************************************************************)
\* C30: a pass that was started returns, under fair scheduling, after every
\* candidate file has been processed exactly once, whatever the number of
\* files of a directory (more than the channel holds, too) and the depth of
\* the tree; no file is ever processed twice.
C30_ScanRunsToCompletion ==
    /\ [](\A f \in DOMAIN w_calls : w_calls[f] <= 1)
    /\ [](w_pc = "done" => \A f \in DOMAIN w_calls : w_calls[f] = 1)
    /\ (w_pc = "loop") ~> (w_pc = "done")

\* a pass has returned from a tree of two levels of which the inner one
\* holds more files than the channel
C30_Witness ==
    /\ w_pc = "done"
    /\ Len(w_tree) = 1
    /\ Len(w_tree[1]) = 2
    /\ w_tree[1][2].before > ChanCap
    /\ \A f \in DOMAIN w_calls : w_calls[f] = 1
(***************************************************************************)
(* Claims about the life of the rows.                                      *)
(***************************************************************************)
\* a row that exists stays; the index changes only in a processFile call of
\* a pass
C29_Step ==
    /\ \A rp \in RelPaths : index[rp].present => index'[rp].present
    /\ index' # index => (s_pc = "loop" /\ handled' # {} /\ last'.tag \in {"added", "updated"})

C28_Step ==
    /\ toolOp' = "GetScanState" =>
          /\ objects'[scanState] = objects[scanState]
          /\ \E addr \in held' \ held : objects'[addr] = objects[scanState]
    /\ toolOp' = "write" => objects'[scanState] = objects[scanState]

\* C28: GetScanState returns a snapshot copy: changing the fields of a
\* returned value never changes the state that later GetScanState calls
\* report or that the rescan trigger tests.
C28_SnapshotCopy ==
    /\ [](scanState \notin held)
    /\ [][C28_Step]_vars

\* a caller has set the flag of its first snapshot, and a second snapshot
\* taken after that reports the state as not scanning
C28_Witness ==
    /\ toolOp = "GetScanState"
    /\ Len(objects) = 3
    /\ objects[2].Scanning
    /\ ~objects[3].Scanning
    /\ ~objects[scanState].Scanning
(***************************************************************************)
(* Claims about the transport.                                             *)
(***************************************************************************)
\* C31: the transport type is stdio when none is configured; for http the
\* details are "http transport on <host>:<port>" with host localhost and
\* port 8080 when they are not configured; any other type makes the start of
\* the server fail with the unsupported-transport error.
C31_TransportSelection ==
    (p_ret.fn = "transport") =>
       LET cfg == p_arg.cfg
           host == IF cfg.Host = "" THEN "localhost" ELSE cfg.Host
           port == (0 :> "8080" @@ 80 :> "80" @@ 8080 :> "8080" @@ 9000 :> "9000")[cfg.Port]
       IN  /\ cfg.Type = "" => p_ret.transport = "stdio" /\ p_ret.start.runs = "stdio"
           /\ cfg.Type # "" => p_ret.transport = cfg.Type
           /\ cfg.Type = "http" =>
                 /\ p_ret.details = "http transport on " \o host \o ":" \o port
                 /\ p_ret.start = [runs |-> "http", err |-> ""]
           /\ cfg.Type \notin {"", "stdio", "http"} =>
                 /\ p_ret.start.runs = "none"
                 /\ p_ret.start.err = "unsupported transport type: " \o cfg.Type
                                      \o " (supported: stdio, http)"

\* no type is configured and the server runs on stdio
C31_Witness ==
    /\ p_ret.fn = "transport"
    /\ p_arg.cfg.Type = ""
    /\ p_ret.transport = "stdio"
    /\ p_ret.details = "stdio transport"
    /\ p_ret.start.runs = "stdio"

(***************************************************************************)
(* Claims about the rejections of processFile.                             *)
(***************************************************************************)
\* the required fields the header of f lacks, in the order OBJECT,
\* TELESCOPE, FILTER, EXPOSURE
LackedFields(f) ==
    LET h == files[f].header
        exp == getFloatHeader(h, ExposureKeys)
    IN  (IF getStringHeader(h, ObjectKeys) = "" THEN <<"OBJECT">> ELSE <<>>)
        \o (IF getStringHeader(h, TelescopeKeys) = "" THEN <<"TELESCOPE">> ELSE <<>>)
        \o (IF getStringHeader(h, FilterKeys) = "" THEN <<"FILTER">> ELSE <<>>)
        \o (IF ~exp.ok \/ exp.v = 0 THEN <<"EXPOSURE">> ELSE <<>>)

\* f can be read as a FITS file and its frame-type header is absent, empty
\* or the light marker
ReadableLightFrame(f) ==
    /\ files[f].stat
    /\ files[f].fits
    /\ GetRelativePath(f) # NoPath
    /\ ~CalibrationFrame(f)

\* C32: when a worker processes a light frame that lacks a required field
\* and the store does not fail, skipped grows by exactly one, the error list
\* grows by exactly one entry, which names the first missing field in the
\* order OBJECT, TELESCOPE, FILTER, EXPOSURE, and the index is not written.
C32_Step ==
    \A f \in FitsFiles :
       (/\ scanned' = scanned + 1
        /\ last'.file = f
        /\ ~last'.fault
        /\ ReadableLightFrame(f)
        /\ LackedFields(f) # <<>>)
       => /\ skipped' = skipped + 1
          /\ errors' = Append(errors,
                ErrorEntry("missing required field " \o Head(LackedFields(f)),
                           GetRelativePath(f)))
          /\ index' = index
          /\ written' = written
          /\ added' = added
          /\ updated' = updated
C32_MissingFieldRejected == [][C32_Step]_vars

\* C33: when a worker processes a readable frame whose frame-type header
\* names another type than the light marker, and the store does not fail,
\* skipped grows by one and the error list stays as it is; nothing is
\* written.
C33_Step ==
    \A f \in FitsFiles :
       (/\ scanned' = scanned + 1
        /\ last'.file = f
        /\ ~last'.fault
        /\ files[f].stat
        /\ files[f].fits
        /\ GetRelativePath(f) # NoPath
        /\ CalibrationFrame(f))
       => /\ skipped' = skipped + 1
          /\ errors' = errors
          /\ index' = index
          /\ added' = added
          /\ updated' = updated
C33_NonLightSkippedQuietly == [][C33_Step]_vars

\* a forced pass has rejected a dark frame for its type: it is counted as
\* skipped and the error list is empty
C33_Witness ==
    /\ last.tag = "notlight"
    /\ s_force
    /\ CalibrationFrame(last.file)
    /\ skipped = 1
    /\ scanned = 1
    /\ errors = <<>>

(***************************************************************************)
(* Claims about the errors of the query gate.                              *)
(***************************************************************************)
\* every validation error names a denylisted keyword of the rejected text
C34_EveryRejectionNamesKeyword ==
    \A q \in Queriers :
       (dbpc[q] = "idle" /\ dbret[q].kind = "validation error")
       => dbret[q].keyword \in Denylisted(dbarg[q])

\* C34: a text that begins with SELECT and is rejected at validation is
\* rejected with an error that names a denylisted keyword of the text; a text
\* that does not begin with SELECT is rejected with "only SELECT queries are
\* allowed", which names no keyword.
C34_RejectionNamesKeywordAfterSelect ==
    \A q \in Queriers :
       (dbpc[q] = "idle" /\ dbret[q].kind = "validation error")
       => IF BeginsWithSelect(dbarg[q])
          THEN /\ dbret[q].err = "forbidden keyword in query"
               /\ dbret[q].keyword \in Denylisted(dbarg[q])
          ELSE /\ dbret[q].err = "only SELECT queries are allowed"
               /\ dbret[q].keyword = <<>>

\* a query followed by DROP TABLE was rejected with the keyword DROP
C34_Witness ==
    \E q \in Queriers :
       /\ dbpc[q] = "idle"
       /\ dbret[q].kind = "validation error"
       /\ dbret[q].err = "forbidden keyword in query"
       /\ dbret[q].keyword = <<"D", "R", "O", "P">>
       /\ BeginsWithSelect(dbarg[q])

(***************************************************************************)
(* Claims about the totals of a pass.                                      *)
(***************************************************************************)
\* the outcomes that end in a per-file error without a count in skipped
ErrorOnlyTags == {"stat", "relpath", "lookup", "extract", "save"}

\* one call of processFile adds one to at most one of the three counters,
\* and to none exactly when it ends in an error that is not counted as
\* skipped
C35_Step ==
    (scanned' = scanned + 1)
    => /\ (added' + updated' + skipped') - (added + updated + skipped)
             = (IF last'.tag \in ErrorOnlyTags THEN 0 ELSE 1)
       /\ added' >= added /\ updated' >= updated /\ skipped' >= skipped

\* C35: every processed file counts in at most one of FilesAdded,
\* FilesUpdated and FilesSkipped; in every ScanResult their sum is at most
\* FilesScanned, and FilesScanned exceeds it by exactly the number of files
\* whose processing ended in a per-file error without a count in skipped.
C35_OneCounterPerFile ==
    /\ []((s_pc = "done" /\ ~result.nil)
            => /\ result.FilesAdded + result.FilesUpdated + result.FilesSkipped
                     <= result.FilesScanned
               /\ result.FilesScanned
                     - (result.FilesAdded + result.FilesUpdated + result.FilesSkipped)
                     = Took(ErrorOnlyTags))
    /\ [][C35_Step]_vars

\* a pass over four files has returned in which one file was rejected for a
\* missing field, counted as skipped, and one file ended in an error of the
\* store, counted nowhere
C35_Witness ==
    /\ s_pc = "done"
    /\ ~result.nil
    /\ result.FilesScanned = 4
    /\ result.FilesAdded + result.FilesUpdated + result.FilesSkipped = 3
    /\ outcomes[FileAX] = "missing"
    /\ \E f \in FitsFiles : outcomes[f] \in {"lookup", "save"}
    /\ Len(result.Errors) = 2

(***************************************************************************)
(* Claims about the rows of the index.                                     *)
(***************************************************************************)
\* f is a light frame the scanner accepts: it can be read and lacks no
\* required field
ValidLightFrame(f) == ReadableLightFrame(f) /\ LackedFields(f) = <<>>

\* C36: two candidate files with different absolute paths are stored under
\* different relative_path keys, also under different base directories; when
\* the first scan over the empty index has returned and the store did not
\* fail, the index has as many rows as valid light frames were found.
C36_DistinctFilesDistinctRows ==
    /\ \A f, g \in FitsFiles :
          (f # g /\ GetRelativePath(f) # NoPath /\ GetRelativePath(g) # NoPath)
          => GetRelativePath(f) # GetRelativePath(g)
    /\ (s_pc = "done" /\ scansDone = 1 /\ faults = 0 /\ ~result.nil)
       => Cardinality({rp \in RelPaths : index[rp].present})
             = Cardinality({f \in handled : ValidLightFrame(f)})

\* the rows a step creates: absent before it, present after it
NewRows == {rp \in RelPaths : ~index[rp].present /\ index'[rp].present}

\* C37: one scan runs at a time and no row is ever removed, so FilesAdded is
\* the number of rows that did not exist before the scan and exist after it
\* exactly when every call of processFile adds to the counter the number of
\* rows it creates, with or without force; in particular a forced scan that
\* processes a file whose row exists leaves the counter as it is.
C37_Step ==
    \A f \in FitsFiles :
       (scanned' = scanned + 1 /\ last'.file = f)
       => /\ added' - added = Cardinality(NewRows)
          /\ (s_force /\ GetRelativePath(f) # NoPath
                /\ index[GetRelativePath(f)].present)
             => added' = added
C37_AddedCountsNewRows == [][C37_Step]_vars

(***************************************************************************)
(* Claims about the reported scan state.                                   *)
(***************************************************************************)
\* the threads of an accepted rescan that has not completed: the handler
\* between its store to the flag and the go statement, and the goroutine up
\* to its deferred store
RescansInProgress ==
    {h \in Handlers : pc[h] = "spawn"}
       \cup {g \in Goroutines : pc[g] \in {"spawned", "scanning", "defer", "deferLocked"}}

\* C38: the running flag a status call reads is true whenever a scan pass is
\* executing, the startup scan included, and it is true only while a pass is
\* executing (from the acceptance of a rescan to its completion).
C38_FlagTracksScans ==
    /\ ActiveScans # {} => scanningNow
    /\ scanningNow => RescansInProgress # {}

(***************************************************************************)
(* Claims about the frame type.                                            *)
(***************************************************************************)
\* the text of the frame-type header of f: that of the first of IMAGETYP,
\* IMAGTYP, FRAME that carries a text, "" when none does
FrameTypeText(f) ==
    LET h == files[f].header
        hits == {i \in 1..Len(ImageTypeKeys) :
                    h[ImageTypeKeys[i]].t = "string" /\ h[ImageTypeKeys[i]].s # ""}
    IN  IF hits = {} THEN ""
        ELSE h[ImageTypeKeys[CHOOSE i \in hits : \A j \in hits : i <= j]].s

\* the frame-type header is absent or empty, or it is the light marker with
\* nothing but white space around it
MarkedLight(f) == FrameTypeText(f) \in {"", " ", "LIGHT", " LIGHT "}

\* C39: a readable file passes the frame-type test exactly when its
\* frame-type header is absent, empty or, after trimming, exactly "LIGHT";
\* with every other value, "Light" and "light" included, it is counted as
\* skipped and never written.  (Without force a file whose row stores its
\* modification time is skipped before the test.)
C39_Step ==
    \A f \in FitsFiles :
       (/\ scanned' = scanned + 1
        /\ last'.file = f
        /\ ~last'.fault
        /\ files[f].stat
        /\ files[f].fits
        /\ GetRelativePath(f) # NoPath)
       => /\ last'.tag = "notlight" <=> (~MarkedLight(f) /\ last'.tag # "unchanged")
          /\ ~MarkedLight(f) => /\ skipped' = skipped + 1
                                /\ index' = index
                                /\ written' = written
          /\ (MarkedLight(f) /\ s_force) => last'.tag \in {"missing", "added", "updated"}
C40_CountIsNumberOfFiles ==
    (p_ret.fn = "query response")
    => p_ret.response.count = Len(p_ret.response.files)
====
